---- MODULE Spec2Model ----
(***************************************************************************)
(* Model of the cream processing framework core:                           *)
(*   - ProcessorRegistry        (src/cream/core/processor.py)              *)
(*   - BaseProcessor.process_batch and _process_single_task                *)
(*   - ParallelProcessor.process_batch (src/cream/core/parallel.py)        *)
(*   - validate_input and the strategies' process_single                   *)
(*   - ModelBackedProcessor construction (load_model)                      *)
(* The specifications share the variables: SpecRegistry drives the         *)
(* registry operations, SpecSnapshot a caller editing the mappings it got  *)
(* from get_processor_classes, SpecBatch one batch call through the        *)
(* sequential loop or the multiprocessing pool, SpecSingle one call of     *)
(* process_single statement by statement, SpecModel the constructor calls  *)
(* of processors and the use of the objects they return.                   *)
(***************************************************************************)
EXTENDS Integers, Sequences, FiniteSets, TLC

VARIABLES
    heap,           \* Python objects holding dicts: heap[ref] is an ordered dict
    processorsRef,  \* ProcessorRegistry._processors: a reference into heap
    snapshots,      \* references the caller got from get_processor_classes
    latest,         \* history: name -> class of the most recent register call
    constructed,    \* history: number of constructor invocations by create
    lastOp,         \* the registry operation that ran last, with its arguments
    lastResult,     \* what that operation returned or raised
    inputFiles,     \* process_batch argument input_files
    numWorkersArg,  \* process_batch argument num_workers (None or an int)
    configMaxWorkers, \* config.max_workers
    tasks,          \* the task list handed to ParallelProcessor.process_batch
    numWorkers,     \* ParallelProcessor.num_workers
    pc,             \* position of the process_batch call
    results,        \* local variable results of process_batch
    running,        \* task positions currently inside worker_func
    calls,          \* history: task positions in the order worker_func started
    delivered,      \* history: task positions in the order their outcome arrived
    collected,      \* how many delivered outcomes the result loop has consumed
    events,         \* history: progress and log events, in order
    poolState,      \* mp.Pool: "none", "running" or "terminated"
    outcome,        \* what process_batch gave its caller: pending, an error on
                    \* its way out (propagating), returned or raised
    outputDirArg,   \* process_batch argument output_dir (None or a directory)
    kwargsArg,      \* process_batch keyword arguments **kwargs
    instances,      \* processor objects under or after construction
    loadCalls,      \* history: number of load_model invocations
    strategy,       \* class of the processor whose process_single runs
    inputPath,      \* its input_path: does the file exist, what is its suffix
    audioFormats,   \* config.audio_formats
    textFormats,    \* config.text_formats
    stmt,           \* position in the body of process_single (0: not called)
    effects,        \* history: the processing work done so far, in order
    validateCalls,  \* history: number of validate_input invocations
    singleOutcome,  \* what process_single gave its caller
    poolWorkers,    \* number of worker processes of the mp.Pool (0: no pool)
    ovArgs,         \* arguments of the call of an overriding process_batch
    ovPc,           \* position in the overriding process_batch
    delegations,    \* history: number of super().process_batch calls
    extraSteps,     \* history: number of runs of the override's extra step
    ovOutcome,      \* what the overriding process_batch gave its caller
    kwHeap,         \* Python objects holding keyword-argument dicts
    kwRefs,         \* references to the caller's mapping and to process_batch's kwargs
    taskKw,         \* per task, the reference to the mapping it carries
    calleeKw,       \* per task, the **kwargs mapping of its process_single call
    kwStage,        \* position of the batch whose mappings are followed
    configOp,       \* the CreamConfig operation that ran last
    enableProgressBars, \* config.enable_progress_bars
    cliInput,       \* what the process command finds: arguments and file system
    cliPc,          \* position in the process command
    cliExit,        \* exit status of the process command ("none" while running)
    loaders,        \* clearvoice network_wrapper: loader name -> wrappers around it
    cvLoads         \* history: number of ClearVoiceProcessor.load_model calls

batchArgVars == <<outputDirArg, kwargsArg>>

modelVars == <<instances, loadCalls>>

singleVars == <<strategy, inputPath, audioFormats, textFormats, stmt, effects,
                validateCalls, singleOutcome>>

registryVars == <<heap, processorsRef, snapshots, latest, constructed, lastOp, lastResult>>

batchVars == <<inputFiles, numWorkersArg, configMaxWorkers, tasks,
               numWorkers, pc, results, running, calls, delivered, collected,
               events, poolState, outcome, poolWorkers>>

vars == <<heap, processorsRef, snapshots, latest, constructed, lastOp, lastResult,
          inputFiles, numWorkersArg, configMaxWorkers, tasks,
          numWorkers, pc, results, running, calls, delivered, collected,
          events, poolState, outcome, outputDirArg, kwargsArg, instances, loadCalls,
          strategy, inputPath, audioFormats, textFormats, stmt, effects,
          validateCalls, singleOutcome, poolWorkers, ovArgs, ovPc, delegations,
          extraSteps, ovOutcome, kwHeap, kwRefs, taskKw, calleeKw, kwStage, configOp,
          enableProgressBars, cliInput, cliPc, cliExit, loaders, cvLoads>>

overrideVars == <<ovArgs, ovPc, delegations, extraSteps, ovOutcome>>

isolationVars == <<kwHeap, kwRefs, taskKw, calleeKw, kwStage>>

configVars == <<configOp, enableProgressBars>>

cliVars == <<cliInput, cliPc, cliExit>>

patchVars == <<loaders, cvLoads>>

laterVars == <<overrideVars, isolationVars, configVars, cliVars, patchVars>>

\* what the steps of one specification leave alone
aroundBatch == <<registryVars, batchArgVars, modelVars, singleVars, laterVars>>

aroundRegistry == <<batchVars, batchArgVars, modelVars, singleVars, laterVars>>

(***************************************************************************)
(* Bounds                                                                  *)
(***************************************************************************)
MaxSnapshots == 1
MaxConstructed == 2
MaxFiles == 3
MaxWorkers == 3

(***************************************************************************)
(* Python dict: insertion ordered, one entry per key.                      *)
(***************************************************************************)
Range(s) == {s[i] : i \in 1..Len(s)}

DictKeys(d) == [i \in 1..Len(d) |-> d[i].name]

DictHas(d, k) == \E i \in 1..Len(d) : d[i].name = k

DictGet(d, k) == (CHOOSE e \in Range(d) : e.name = k).cls

\* d[k] = v: an existing key keeps its position, a new key goes last
DictSet(d, k, v) ==
    IF DictHas(d, k)
    THEN [i \in 1..Len(d) |-> IF d[i].name = k THEN [name |-> k, cls |-> v] ELSE d[i]]
    ELSE Append(d, [name |-> k, cls |-> v])

\* del d[k]
DictDel(d, k) == SelectSeq(d, LAMBDA e : e.name # k)

(***************************************************************************)
(* Processor types.  The concrete classes are those the package registers; *)
(* NotAClass stands for a registered value that is no class at all.        *)
(***************************************************************************)
Names == {"audio_resampler", "text_normalizer"}

Classes == {"AudioResampler", "TextNormalizer", "VAD_FSMN"}

Registrable == Classes \cup {"NotAClass"}

BaseClasses == {"BaseProcessor", "BaseAudioProcessor", "BaseTextProcessor",
                "ModelBackedProcessor"}

\* the classes a class inherits from, itself included
Mro(cls) ==
    CASE cls = "AudioResampler" -> {"AudioResampler", "BaseAudioProcessor", "BaseProcessor"}
      [] cls \in {"AudioNormalizer", "AudioMetaViewer"} ->
            {cls, "BaseAudioProcessor", "BaseProcessor"}
      [] cls \in {"AudioDenoiserMossFormerGANSR16k", "AudioDenoiserMossFormer2SR48k",
                  "AudioSeparatorMossFormer2SR16k"} ->
            {cls, "ClearVoiceProcessor", "ModelBackedProcessor", "BaseAudioProcessor",
             "BaseProcessor"}
      [] cls = "TextMetaViewer" -> {"TextMetaViewer", "BaseTextProcessor", "BaseProcessor"}
      [] cls = "TextNormalizer" -> {"TextNormalizer", "ModelBackedProcessor",
                                    "BaseTextProcessor", "BaseProcessor"}
      [] cls = "VAD_FSMN"       -> {"VAD_FSMN", "ModelBackedProcessor", "BaseProcessor"}

\* issubclass(cls, base) raises TypeError when cls is not a class
IssubclassRaises(cls) == cls \notin Classes

Issubclass(cls, base) == base \in Mro(cls)

\* the error a failed load_model raises: the ImportError branches wrap it
LoadErrorKind(cls) ==
    IF "BaseTextProcessor" \in Mro(cls) THEN "TextProcessingError" ELSE "AudioProcessingError"

NoResult == [kind |-> "none"]

(***************************************************************************)
(* ProcessorRegistry                                                       *)
(***************************************************************************)
registry == heap[processorsRef]

RegisterFirstWins(d, name, cls) == IF DictHas(d, name) THEN d ELSE DictSet(d, name, cls)

\* ProcessorRegistry.register: self._processors[name] = processor_class
RegisterEntry(d, name, cls) == DictSet(d, name, cls)

Register(name, cls) ==
    /\ heap' = [heap EXCEPT ![processorsRef] = RegisterEntry(@, name, cls)]
    /\ latest' = [latest EXCEPT ![name] = cls]
    /\ lastOp' = [op |-> "register", arg |-> name]
    /\ lastResult' = NoResult
    /\ UNCHANGED <<processorsRef, snapshots, constructed>>

\* ProcessorRegistry.list_processors
list_processors(d) == DictKeys(d)

ListProcessors ==
    /\ lastOp' = [op |-> "list_processors", arg |-> "-"]
    /\ lastResult' = [kind |-> "list", value |-> list_processors(registry)]
    /\ UNCHANGED <<heap, processorsRef, snapshots, latest, constructed>>

LoadOutcomes == {"loaded", "missing_library", "construction_error"}

IsModelBacked(cls) == cls \in Classes /\ "ModelBackedProcessor" \in Mro(cls)

\* processor_class(): ModelBackedProcessor.__init__ stores self.load_model();
\* load_model wraps a missing library in the domain's processing error and
\* lets an error of the model's own constructor through as it is
Instantiate(cls, load) ==
    IF cls \notin Classes THEN [kind |-> "TypeError"]
    ELSE IF IsModelBacked(cls) /\ load = "missing_library" THEN [kind |-> LoadErrorKind(cls)]
    ELSE IF IsModelBacked(cls) /\ load = "construction_error" THEN [kind |-> "Exception"]
    ELSE [kind |-> "instance", cls |-> cls]

CreateFirstEntry(d, name, load) ==
    IF d = <<>>
    THEN [kind |-> "ValidationError", requested |-> name, available |-> DictKeys(d)]
    ELSE Instantiate(d[1].cls, load)

\* ProcessorRegistry.create
create(d, name, load) ==
    IF ~DictHas(d, name)
    THEN [kind |-> "ValidationError", requested |-> name, available |-> DictKeys(d)]
    ELSE Instantiate(DictGet(d, name), load)

\* whether create(name) gets as far as calling a class
CallsConstructor(d, name) == DictHas(d, name) /\ DictGet(d, name) \in Classes

LookupNames == Names \cup {"unknown"}

Create(name, load) ==
    /\ CallsConstructor(registry, name) => constructed < MaxConstructed
    /\ lastOp' = [op |-> "create", arg |-> name]
    /\ lastResult' = create(registry, name, load)
    /\ constructed' = IF CallsConstructor(registry, name) THEN constructed + 1 ELSE constructed
    /\ UNCHANGED <<heap, processorsRef, snapshots, latest>>

RECURSIVE ListByBaseLoop(_, _, _)
\* the for loop of list_processors_by_base over self._processors.items()
ListByBaseLoop(items, base, acc) ==
    IF items = <<>> THEN acc
    ELSE LET cls == Head(items).cls
             name == Head(items).name
         IN  IF IssubclassRaises(cls)
             THEN ListByBaseLoop(Tail(items), base, acc)                \* except: continue
             ELSE IF Issubclass(cls, base)
                  THEN ListByBaseLoop(Tail(items), base, Append(acc, name))
                  ELSE ListByBaseLoop(Tail(items), base, acc)

RECURSIVE ListByBaseStopAtMalformed(_, _, _)
ListByBaseStopAtMalformed(items, base, acc) ==
    IF items = <<>> THEN acc
    ELSE LET cls == Head(items).cls
             name == Head(items).name
         IN  IF IssubclassRaises(cls)
             THEN acc
             ELSE IF Issubclass(cls, base)
                  THEN ListByBaseStopAtMalformed(Tail(items), base, Append(acc, name))
                  ELSE ListByBaseStopAtMalformed(Tail(items), base, acc)

ListByBaseBreaks(d, base) == ListByBaseStopAtMalformed(d, base, <<>>)

\* ProcessorRegistry.list_processors_by_base
list_processors_by_base(d, base) == ListByBaseLoop(d, base, <<>>)

ListProcessorsByBase(base) ==
    /\ lastOp' = [op |-> "list_processors_by_base", arg |-> base]
    /\ lastResult' = [kind |-> "list", value |-> list_processors_by_base(registry, base)]
    /\ UNCHANGED <<heap, processorsRef, snapshots, latest, constructed>>

AliasDict(h, ref) == [heap |-> h, ref |-> ref]

\* dict(self._processors): a new dict object with the same items
CopyDict(h, ref) == [heap |-> Append(h, h[ref]), ref |-> Len(h) + 1]

\* ProcessorRegistry.get_processor_classes
GetProcessorClasses ==
    /\ Len(snapshots) < MaxSnapshots
    /\ LET r == CopyDict(heap, processorsRef)
       IN  /\ heap' = r.heap
           /\ snapshots' = Append(snapshots, r.ref)
           /\ lastResult' = [kind |-> "dict", ref |-> r.ref]
    /\ lastOp' = [op |-> "get_processor_classes", arg |-> "-"]
    /\ UNCHANGED <<processorsRef, latest, constructed>>

\* the caller adds or replaces an entry of a mapping it was given
SnapshotSet(i, name, cls) ==
    /\ heap' = [heap EXCEPT ![snapshots[i]] = DictSet(@, name, cls)]
    /\ lastOp' = [op |-> "snapshot_set", arg |-> "-"]
    /\ lastResult' = NoResult
    /\ UNCHANGED <<processorsRef, snapshots, latest, constructed>>

\* the caller deletes an entry of a mapping it was given
SnapshotDel(i, name) ==
    /\ DictHas(heap[snapshots[i]], name)
    /\ heap' = [heap EXCEPT ![snapshots[i]] = DictDel(@, name)]
    /\ lastOp' = [op |-> "snapshot_del", arg |-> "-"]
    /\ lastResult' = NoResult
    /\ UNCHANGED <<processorsRef, snapshots, latest, constructed>>

Domains == {"audio", "text"}

\* the base class of a domain's strategies
DomainBase(domain) ==
    IF domain = "audio" THEN "BaseAudioProcessor" ELSE "BaseTextProcessor"

\* AudioProcessorInterface.list_all_methods and
\* TextProcessorInterface.list_all_methods: processor_registry.list_processors()
ListAllMethods(domain) ==
    /\ lastOp' = [op |-> "list_all_methods", arg |-> domain]
    /\ lastResult' = [kind |-> "list", value |-> list_processors(registry)]
    /\ UNCHANGED <<heap, processorsRef, snapshots, latest, constructed>>

RegistryInit ==
    /\ heap = << <<>> >>
    /\ processorsRef = 1
    /\ snapshots = <<>>
    /\ latest = [n \in Names |-> "unregistered"]
    /\ constructed = 0
    /\ lastOp = [op |-> "init", arg |-> "-"]
    /\ lastResult = NoResult

(***************************************************************************)
(* Input validation and the strategies' process_single.  A path is what    *)
(* the checks look at: whether the file exists and its suffix.             *)
(***************************************************************************)
\* suffixes as Path.suffix gives them; "" is a name without extension
Suffixes == {".wav", ".WAV", ".Mp3", ".ogg", ".txt", ".TXT", ".json", ".pdf", ""}

Paths == [exists : BOOLEAN, suffix : Suffixes]

\* str.lower()
Lower(sfx) ==
    CASE sfx = ".WAV" -> ".wav"
      [] sfx = ".Mp3" -> ".mp3"
      [] sfx = ".TXT" -> ".txt"
      [] OTHER -> sfx

\* CreamConfig.audio_formats and text_formats as constructed
DefaultAudioFormats ==
    <<".wav", ".flac", ".mp3", ".ogg", ".opus", ".m4a", ".aiff", ".ac3", ".wma">>

DefaultTextFormats == <<".txt", ".csv", ".tsv", ".json">>

\* the lists a configuration can hold: the defaults or lists assigned later
AudioFormatLists == {DefaultAudioFormats, <<".wav", ".mp3", ".wav">>, <<>>}

TextFormatLists == {DefaultTextFormats, <<".txt">>}

\* the order of str comparison on the suffixes above
StrOrder ==
    <<"", ".Mp3", ".TXT", ".WAV", ".ac3", ".aiff", ".csv", ".flac", ".json", ".m4a",
      ".mp3", ".ogg", ".opus", ".pdf", ".tsv", ".txt", ".wav", ".wma">>

StrIndex(str) == CHOOSE i \in 1..Len(StrOrder) : StrOrder[i] = str

StrLess(a, b) == StrIndex(a) < StrIndex(b)

\* sorted(iterable of str), on a set
RECURSIVE Sorted(_)
Sorted(S) ==
    IF S = {} THEN <<>>
    ELSE LET least == CHOOSE x \in S : \A y \in S : ~StrLess(y, x)
         IN  <<least>> \o Sorted(S \ {least})

\* SUPPORTED_FORMATS: set(config.audio_formats) or set(config.text_formats)
SupportedFormats(formats) == Range(formats)

ValidationPassed == [ok |-> TRUE]

ValidationError(text, sfx, supported) ==
    [ok |-> FALSE,
     error |-> [kind |-> "ValidationError", text |-> text, suffix |-> sfx,
                supported |-> supported]]

\* BaseProcessor.validate_input
BaseValidateInput(path) ==
    IF ~path.exists
    THEN ValidationError("Input file not found", path.suffix, <<>>)
    ELSE ValidationPassed

DomainValidateInputCaseSensitive(path, formats, text) ==
    LET base == BaseValidateInput(path)
    IN  IF ~base.ok THEN base
        ELSE IF path.suffix \notin SupportedFormats(formats)
        THEN ValidationError(text, path.suffix, Sorted(SupportedFormats(formats)))
        ELSE ValidationPassed

\* BaseAudioProcessor.validate_input and BaseTextProcessor.validate_input:
\* the base check first, then the lower-cased suffix against the allow-list
DomainValidateInput(path, formats, text) ==
    LET base == BaseValidateInput(path)
    IN  IF ~base.ok THEN base
        ELSE IF Lower(path.suffix) \notin SupportedFormats(formats)
        THEN ValidationError(text, path.suffix, Sorted(SupportedFormats(formats)))
        ELSE ValidationPassed

ValidateInputSkipsSuper(cls, path, af, tf) ==
    IF "BaseAudioProcessor" \in Mro(cls) /\ Lower(path.suffix) \in SupportedFormats(af)
    THEN ValidationPassed
    ELSE IF "BaseAudioProcessor" \in Mro(cls)
    THEN DomainValidateInput(path, af, "Unsupported audio format")
    ELSE IF "BaseTextProcessor" \in Mro(cls)
    THEN DomainValidateInput(path, tf, "Unsupported text format")
    ELSE BaseValidateInput(path)

\* self.validate_input(input_path), resolved along the class's bases
validate_input(cls, path, af, tf) ==
    IF "BaseAudioProcessor" \in Mro(cls)
    THEN DomainValidateInput(path, af, "Unsupported audio format")
    ELSE IF "BaseTextProcessor" \in Mro(cls)
    THEN DomainValidateInput(path, tf, "Unsupported text format")
    ELSE BaseValidateInput(path)

\* the classes the package registers
Strategies ==
    {"AudioResampler", "AudioNormalizer", "AudioDenoiserMossFormerGANSR16k",
     "AudioDenoiserMossFormer2SR48k", "AudioSeparatorMossFormer2SR16k",
     "AudioMetaViewer", "VAD_FSMN", "TextNormalizer", "TextMetaViewer"}

ProgramWorkFirst(cls) ==
    CASE cls = "AudioResampler" -> <<"validate_input", "librosa.load", "mkdir", "sf.write">>
      [] cls = "AudioNormalizer" -> <<"File.info", "validate_input", "ffmpeg-normalize">>
      [] cls \in {"AudioDenoiserMossFormerGANSR16k", "AudioDenoiserMossFormer2SR48k",
                  "AudioSeparatorMossFormer2SR16k"} -> <<"validate_input", "self.model">>
      [] cls = "AudioMetaViewer" -> <<"validate_input", "File">>
      [] cls = "VAD_FSMN" -> <<"validate_input", "model.generate", "open.w", "json.dump">>
      [] cls = "TextNormalizer" -> <<"validate_input", "open.r", "open.w", "model.normalize">>
      [] cls = "TextMetaViewer" -> <<"validate_input", "open.r", "uplot">>

\* the body of each strategy's process_single: the calls that touch the
\* file system, the model or an external tool, in statement order
Program(cls) ==
    CASE cls = "AudioResampler" -> <<"validate_input", "librosa.load", "mkdir", "sf.write">>
      [] cls = "AudioNormalizer" -> <<"validate_input", "File.info", "ffmpeg-normalize">>
      [] cls \in {"AudioDenoiserMossFormerGANSR16k", "AudioDenoiserMossFormer2SR48k",
                  "AudioSeparatorMossFormer2SR16k"} -> <<"validate_input", "self.model">>
      [] cls = "AudioMetaViewer" -> <<"validate_input", "File">>
      [] cls = "VAD_FSMN" -> <<"validate_input", "model.generate", "open.w", "json.dump">>
      [] cls = "TextNormalizer" -> <<"validate_input", "open.r", "open.w", "model.normalize">>
      [] cls = "TextMetaViewer" -> <<"validate_input", "open.r", "uplot">>

SinglePending == [kind |-> "pending"]

\* a call processor.process_single(input_path) enters the body
ProcessSingleCall ==
    /\ stmt = 0
    /\ stmt' = 1
    /\ UNCHANGED <<strategy, inputPath, audioFormats, textFormats, effects,
                   validateCalls, singleOutcome>>

\* the statement self.validate_input(input_path): its error leaves the body
SingleValidate ==
    /\ singleOutcome = SinglePending
    /\ stmt \in 1..Len(Program(strategy))
    /\ Program(strategy)[stmt] = "validate_input"
    /\ validateCalls' = validateCalls + 1
    /\ LET r == validate_input(strategy, inputPath, audioFormats, textFormats)
       IN  IF r.ok
           THEN stmt' = stmt + 1 /\ UNCHANGED singleOutcome
           ELSE singleOutcome' = [kind |-> "raised", error |-> r.error] /\ UNCHANGED stmt
    /\ UNCHANGED <<strategy, inputPath, audioFormats, textFormats, effects>>

\* a statement doing the strategy's work: it acts on the file system, the
\* model or a tool, and either completes or raises
SingleWork(completes) ==
    /\ singleOutcome = SinglePending
    /\ stmt \in 1..Len(Program(strategy))
    /\ Program(strategy)[stmt] # "validate_input"
    /\ effects' = Append(effects, Program(strategy)[stmt])
    /\ IF completes
       THEN stmt' = stmt + 1 /\ UNCHANGED singleOutcome
       ELSE /\ singleOutcome' =
                 [kind |-> "raised",
                  error |-> [kind |-> "ProcessingFailure", text |-> Program(strategy)[stmt],
                             suffix |-> inputPath.suffix, supported |-> <<>>]]
            /\ UNCHANGED stmt
    /\ UNCHANGED <<strategy, inputPath, audioFormats, textFormats, validateCalls>>

\* the return statement
SingleReturn ==
    /\ singleOutcome = SinglePending
    /\ stmt = Len(Program(strategy)) + 1
    /\ singleOutcome' = [kind |-> "returned"]
    /\ UNCHANGED <<strategy, inputPath, audioFormats, textFormats, stmt, effects,
                   validateCalls>>

\* no process_single call of its own: the default configuration
SingleIdle ==
    /\ strategy = "AudioResampler"
    /\ inputPath = [exists |-> TRUE, suffix |-> ".wav"]
    /\ audioFormats = DefaultAudioFormats
    /\ textFormats = DefaultTextFormats
    /\ stmt = 0
    /\ effects = <<>>
    /\ validateCalls = 0
    /\ singleOutcome = SinglePending

SingleInit ==
    /\ strategy \in Strategies
    /\ inputPath \in Paths
    /\ audioFormats \in AudioFormatLists
    /\ textFormats \in TextFormatLists
    /\ stmt = 0
    /\ effects = <<>>
    /\ validateCalls = 0
    /\ singleOutcome = SinglePending

(***************************************************************************)
(* Construction of processors.  ModelBackedProcessor.__init__ runs         *)
(* super().__init__() and then self.model = self.load_model(); the steps   *)
(* below follow one constructor call from the new object to its return or  *)
(* its exception.  The caller holds an object only once the constructor    *)
(* returned it.                                                            *)
(***************************************************************************)
NoHandle == 0

NewObject(cls) ==
    [cls |-> cls,
     state |-> IF IsModelBacked(cls) THEN "Uninitialized" ELSE "Constructed",
     loadId |-> 0, handle |-> NoHandle, held |-> ~IsModelBacked(cls), error |-> "-",
     used |-> FALSE]

\* a constructor call is between object creation and its return
Constructing ==
    /\ instances # <<>>
    /\ instances[Len(instances)].state \in {"Uninitialized", "Loading"}

\* processor_registry.create(name): self._processors[name]() for a registered
\* name, the object exists and __init__ is entered
CreateBegin(name) ==
    /\ ~Constructing
    /\ constructed < MaxConstructed
    /\ DictHas(registry, name)
    /\ DictGet(registry, name) \in Classes
    /\ instances' = Append(instances, NewObject(DictGet(registry, name)))
    /\ constructed' = constructed + 1
    /\ lastOp' = [op |-> "create", arg |-> name]
    /\ lastResult' = IF IsModelBacked(DictGet(registry, name))
                      THEN NoResult
                      ELSE Instantiate(DictGet(registry, name), "loaded")
    /\ UNCHANGED <<heap, processorsRef, snapshots, latest, loadCalls>>

\* a direct call of the class
ConstructBegin(cls) ==
    /\ ~Constructing
    /\ constructed < MaxConstructed
    /\ instances' = Append(instances, NewObject(cls))
    /\ constructed' = constructed + 1
    /\ lastOp' = [op |-> "construct", arg |-> cls]
    /\ lastResult' = IF IsModelBacked(cls) THEN NoResult ELSE Instantiate(cls, "loaded")
    /\ UNCHANGED <<heap, processorsRef, snapshots, latest, loadCalls>>

LoadStartCached ==
    /\ Constructing
    /\ instances[Len(instances)].state = "Uninitialized"
    /\ LET me == instances[Len(instances)]
           same == {i \in 1..Len(instances) :
                       instances[i].cls = me.cls /\ instances[i].state = "Ready"}
       IN  IF same = {}
           THEN /\ loadCalls' = loadCalls + 1
                /\ instances' = [instances EXCEPT ![Len(instances)].state = "Loading",
                                                  ![Len(instances)].loadId = loadCalls + 1]
           ELSE /\ loadCalls' = loadCalls
                /\ instances' =
                      [instances EXCEPT ![Len(instances)].state = "Loading",
                                        ![Len(instances)].loadId =
                                            instances[CHOOSE i \in same : TRUE].loadId]
    /\ UNCHANGED <<heap, processorsRef, snapshots, latest, constructed, lastOp, lastResult>>

\* ModelBackedProcessor.__init__ calls self.load_model()
LoadStart ==
    /\ Constructing
    /\ instances[Len(instances)].state = "Uninitialized"
    /\ loadCalls' = loadCalls + 1
    /\ instances' = [instances EXCEPT ![Len(instances)].state = "Loading",
                                      ![Len(instances)].loadId = loadCalls + 1]
    /\ UNCHANGED <<heap, processorsRef, snapshots, latest, constructed, lastOp, lastResult>>

LoadFinishKeepsObject(load) ==
    /\ Constructing
    /\ instances[Len(instances)].state = "Loading"
    /\ LET me == instances[Len(instances)]
           r  == Instantiate(me.cls, load)
       IN  /\ lastResult' = [kind |-> "instance", cls |-> me.cls]
           /\ instances' =
                 IF r.kind = "instance"
                 THEN [instances EXCEPT ![Len(instances)].state = "Ready",
                                        ![Len(instances)].handle = me.loadId,
                                        ![Len(instances)].held = TRUE]
                 ELSE [instances EXCEPT ![Len(instances)].state = "Failed",
                                        ![Len(instances)].held = TRUE,
                                        ![Len(instances)].error = r.kind]
    /\ UNCHANGED <<heap, processorsRef, snapshots, latest, constructed, lastOp, loadCalls>>

\* load_model returns the model, which __init__ stores before the constructor
\* returns the object, or raises and the exception leaves the constructor
\* and create
LoadFinish(load) ==
    /\ Constructing
    /\ instances[Len(instances)].state = "Loading"
    /\ LET me == instances[Len(instances)]
           r  == Instantiate(me.cls, load)
       IN  /\ lastResult' = r
           /\ instances' =
                 IF r.kind = "instance"
                 THEN [instances EXCEPT ![Len(instances)].state = "Ready",
                                        ![Len(instances)].handle = me.loadId,
                                        ![Len(instances)].held = TRUE]
                 ELSE [instances EXCEPT ![Len(instances)].state = "Failed",
                                        ![Len(instances)].error = r.kind]
    /\ UNCHANGED <<heap, processorsRef, snapshots, latest, constructed, lastOp, loadCalls>>

\* the caller runs process_single or process_batch on an object it holds:
\* the strategies use self.model as stored
UseInstance(i) ==
    /\ ~Constructing
    /\ instances[i].held
    /\ ~instances[i].used
    /\ instances' = [instances EXCEPT ![i].used = TRUE]
    /\ lastOp' = [op |-> "process_single", arg |-> instances[i].cls]
    /\ lastResult' = NoResult
    /\ UNCHANGED <<heap, processorsRef, snapshots, latest, constructed, loadCalls>>

\* no processor object exists
ModelIdle ==
    /\ instances = <<>>
    /\ loadCalls = 0

(***************************************************************************)
(* Batch execution: BaseProcessor.process_batch builds the tasks and hands *)
(* them to ParallelProcessor.process_batch with _process_single_task as    *)
(* the worker function.                                                    *)
(***************************************************************************)
\* the files of the environment: two that process, one that does not exist,
\* one whose content the strategy cannot load
Files == {"in/a.wav", "raw/b.wav", "in/missing.wav", "raw/corrupt.wav"}

\* Path.name: the final component
PathName(p) ==
    CASE p = "in/a.wav" -> "a.wav"
      [] p = "raw/b.wav" -> "b.wav"
      [] p = "in/missing.wav" -> "missing.wav"
      [] p = "raw/corrupt.wav" -> "corrupt.wav"

\* output directories a caller passes, and keyword arguments
OutputDirs == {"out"}

NoKwargs == {}

KwargsChoices == {NoKwargs, {<<"target_sr", 16000>>}}

NoneValue == "None"

NoneInt == [isNone |-> TRUE, val |-> 0]

SomeInt(n) == [isNone |-> FALSE, val |-> n]

RECURSIVE SeqsUpTo(_, _)
SeqsUpTo(S, n) ==
    IF n = 0 THEN {<<>>}
    ELSE LET shorter == SeqsUpTo(S, n - 1)
         IN  shorter \cup {Append(q, x) : q \in shorter, x \in S}

\* validate_input then the strategy's work (AudioMetaViewer.process_single):
\* a missing file raises ValidationError, an unreadable one
\* AudioProcessingError, otherwise the result names the path written
process_single(input_path, output_path) ==
    IF input_path = "in/missing.wav"
    THEN [ok |-> FALSE, error |-> [kind |-> "ValidationError", path |-> input_path]]
    ELSE IF input_path = "raw/corrupt.wav"
    THEN [ok |-> FALSE, error |-> [kind |-> "AudioProcessingError", path |-> input_path]]
    ELSE [ok |-> TRUE,
          value |-> [output |-> IF output_path = NoneValue THEN input_path ELSE output_path]]

ProcessSingleArgsFullPath(task) ==
    [input_path |-> task.input,
     output_path |-> IF task.output_dir = NoneValue THEN NoneValue
                     ELSE <<task.output_dir, task.input>>,
     kwargs |-> task.kwargs]

\* _process_single_task: the arguments of processor.process_single, with
\* output_path = output_dir / input_path.name, or None
ProcessSingleArgs(task) ==
    [input_path |-> task.input,
     output_path |-> IF task.output_dir = NoneValue THEN NoneValue
                     ELSE <<task.output_dir, PathName(task.input)>>,
     kwargs |-> task.kwargs]

\* _process_single_task
WorkerFunc(task) ==
    LET args == ProcessSingleArgs(task)
    IN  process_single(args.input_path, args.output_path)

\* tasks = [(self, input_file, output_dir, dict(kwargs)) for input_file in input_files]
BuildTasks(files, output_dir, kwargs) ==
    [i \in 1..Len(files) |->
        [input |-> files[i], output_dir |-> output_dir, kwargs |-> kwargs]]

\* num_workers or config.max_workers
EffectiveWorkers(arg, configured) ==
    IF arg.isNone \/ arg.val = 0 THEN configured ELSE arg.val

Pending == [kind |-> "pending"]

Returned(value) == [kind |-> "returned", value |-> value]

EntryLogsBeforeEmptyCheck(ts, nw) ==
    IF ts = <<>>
    THEN [pc |-> "returned", events |-> <<"log_start">>, poolState |-> "none",
          poolWorkers |-> 0,
          outcome |-> Returned(<<>>)]
    ELSE IF nw = 1
    THEN [pc |-> "seq", events |-> <<"log_start", "add_task">>, poolState |-> "none",
          poolWorkers |-> 0,
          outcome |-> Pending]
    ELSE IF nw < 1
    THEN [pc |-> "raised", events |-> <<"log_start">>, poolState |-> "none",
          poolWorkers |-> 0,
          outcome |-> [kind |-> "raised", error |-> [kind |-> "ValueError", path |-> "-"]]]
    ELSE [pc |-> "par", events |-> <<"log_start", "add_task">>, poolState |-> "running",
          poolWorkers |-> nw,
          outcome |-> Pending]

BatchEntryPoolPerTask(ts, nw) ==
    IF ts = <<>>
    THEN [pc |-> "returned", events |-> <<>>, poolState |-> "none",
          poolWorkers |-> 0,
          outcome |-> Returned(<<>>)]
    ELSE IF nw = 1
    THEN [pc |-> "seq", events |-> <<"log_start", "add_task">>, poolState |-> "none",
          poolWorkers |-> 0,
          outcome |-> Pending]
    ELSE IF nw < 1
    THEN [pc |-> "raised", events |-> <<"log_start">>, poolState |-> "none",
          poolWorkers |-> 0,
          outcome |-> [kind |-> "raised", error |-> [kind |-> "ValueError", path |-> "-"]]]
    ELSE [pc |-> "par", events |-> <<"log_start", "add_task">>, poolState |-> "running",
          poolWorkers |-> IF Len(ts) < nw THEN Len(ts) ELSE nw,
          outcome |-> Pending]

\* ParallelProcessor.process_batch up to its result loop: the empty check, then
\* log_progress_start, the pool (mp.Pool raises ValueError for fewer than one
\* process) and progress.add_task
BatchEntry(ts, nw) ==
    IF ts = <<>>
    THEN [pc |-> "returned", events |-> <<>>, poolState |-> "none",
          poolWorkers |-> 0,
          outcome |-> Returned(<<>>)]
    ELSE IF nw = 1
    THEN [pc |-> "seq", events |-> <<"log_start", "add_task">>, poolState |-> "none",
          poolWorkers |-> 0,
          outcome |-> Pending]
    ELSE IF nw < 1
    THEN [pc |-> "raised", events |-> <<"log_start">>, poolState |-> "none",
          poolWorkers |-> 0,
          outcome |-> [kind |-> "raised", error |-> [kind |-> "ValueError", path |-> "-"]]]
    ELSE [pc |-> "par", events |-> <<"log_start", "add_task">>, poolState |-> "running",
          poolWorkers |-> nw,
          outcome |-> Pending]

\* BaseProcessor.process_batch calling ParallelProcessor(...).process_batch
ProcessBatchCall ==
    /\ pc = "idle"
    /\ LET ts == BuildTasks(inputFiles, outputDirArg, kwargsArg)
           nw == EffectiveWorkers(numWorkersArg, configMaxWorkers)
           e  == BatchEntry(ts, nw)
       IN  /\ tasks' = ts
           /\ numWorkers' = nw
           /\ pc' = e.pc
           /\ events' = e.events
           /\ poolState' = e.poolState
           /\ poolWorkers' = e.poolWorkers
           /\ outcome' = e.outcome
    /\ UNCHANGED <<inputFiles, numWorkersArg, configMaxWorkers, results, running,
                   calls, delivered, collected>>

\* sequential loop: worker_func(task) is entered for the next task
SeqStart ==
    /\ pc = "seq"
    /\ running = {}
    /\ Len(calls) < Len(tasks)
    /\ running' = {Len(calls) + 1}
    /\ calls' = Append(calls, Len(calls) + 1)
    /\ UNCHANGED <<poolWorkers, inputFiles, numWorkersArg, configMaxWorkers, tasks, numWorkers, pc,
                   results, delivered, collected, events, poolState, outcome>>

SeqCompleteSkipsFailure ==
    /\ pc = "seq"
    /\ \E i \in running :
          LET r == WorkerFunc(tasks[i])
          IN  /\ running' = {}
              /\ delivered' = Append(delivered, i)
              /\ collected' = collected + 1
              /\ IF r.ok
                 THEN /\ results' = Append(results, r.value)
                      /\ events' = Append(events, "advance")
                 ELSE UNCHANGED <<results, events>>
              /\ UNCHANGED <<pc, outcome>>
    /\ UNCHANGED <<poolWorkers, inputFiles, numWorkersArg, configMaxWorkers, tasks, numWorkers,
                   calls, poolState>>

SeqCompletePrepends ==
    /\ pc = "seq"
    /\ \E i \in running :
          LET r == WorkerFunc(tasks[i])
          IN  /\ running' = {}
              /\ delivered' = Append(delivered, i)
              /\ collected' = collected + 1
              /\ IF r.ok
                 THEN /\ results' = <<r.value>> \o results
                      /\ events' = Append(events, "advance")
                      /\ UNCHANGED <<pc, outcome>>
                 ELSE /\ pc' = "raised"
                      /\ outcome' = [kind |-> "raised", error |-> r.error]
                      /\ UNCHANGED <<results, events>>
    /\ UNCHANGED <<poolWorkers, inputFiles, numWorkersArg, configMaxWorkers, tasks, numWorkers,
                   calls, poolState>>

\* sequential loop: worker_func(task) returns and results.append and
\* progress.update run, or it raises and the error leaves process_batch
SeqComplete ==
    /\ pc = "seq"
    /\ \E i \in running :
          LET r == WorkerFunc(tasks[i])
          IN  /\ running' = {}
              /\ delivered' = Append(delivered, i)
              /\ collected' = collected + 1
              /\ IF r.ok
                 THEN /\ results' = Append(results, r.value)
                      /\ events' = Append(events, "advance")
                      /\ UNCHANGED <<pc, outcome>>
                 ELSE /\ pc' = "raised"
                      /\ outcome' = [kind |-> "raised", error |-> r.error]
                      /\ UNCHANGED <<results, events>>
    /\ UNCHANGED <<poolWorkers, inputFiles, numWorkersArg, configMaxWorkers, tasks, numWorkers,
                   calls, poolState>>

\* sequential loop exhausted: log_progress_complete and return results
SeqFinish ==
    /\ pc = "seq"
    /\ running = {}
    /\ Len(calls) = Len(tasks)
    /\ events' = Append(events, "log_complete")
    /\ pc' = "returned"
    /\ outcome' = Returned(results)
    /\ UNCHANGED <<poolWorkers, inputFiles, numWorkersArg, configMaxWorkers, tasks, numWorkers,
                   results, running, calls, delivered, collected, poolState>>

ParDispatchAnyPending ==
    /\ pc \in {"par", "propagating"}
    /\ poolState = "running"
    /\ Cardinality(running) < poolWorkers
    /\ Len(calls) < MaxFiles + 1
    /\ \E i \in 1..Len(tasks) :
          /\ i \notin Range(delivered)
          /\ running' = running \cup {i}
          /\ calls' = Append(calls, i)
    /\ UNCHANGED <<poolWorkers, inputFiles, numWorkersArg, configMaxWorkers, tasks, numWorkers, pc,
                   results, delivered, collected, events, poolState, outcome>>

\* pool worker: an idle worker takes the next task off the pool's task queue
\* (imap_unordered queued them all, in submission order) and enters worker_func
ParDispatch ==
    /\ pc \in {"par", "propagating"}
    /\ poolState = "running"
    /\ Cardinality(running) < poolWorkers
    /\ Len(calls) < Len(tasks)
    /\ running' = running \cup {Len(calls) + 1}
    /\ calls' = Append(calls, Len(calls) + 1)
    /\ UNCHANGED <<poolWorkers, inputFiles, numWorkersArg, configMaxWorkers, tasks, numWorkers, pc,
                   results, delivered, collected, events, poolState, outcome>>

\* pool worker: worker_func returns or raises; either way the outcome is put
\* on the pool's result queue
ParComplete(i) ==
    /\ poolState = "running"
    /\ i \in running
    /\ running' = running \ {i}
    /\ delivered' = Append(delivered, i)
    /\ UNCHANGED <<poolWorkers, inputFiles, numWorkersArg, configMaxWorkers, tasks, numWorkers, pc,
                   results, calls, collected, events, poolState, outcome>>

ParCollectAdvancesOnError ==
    /\ pc = "par"
    /\ collected < Len(delivered)
    /\ LET r == WorkerFunc(tasks[delivered[collected + 1]])
       IN  /\ collected' = collected + 1
           /\ events' = Append(events, "advance")
           /\ IF r.ok
              THEN /\ results' = Append(results, r.value)
                   /\ UNCHANGED <<pc, outcome>>
              ELSE /\ pc' = "propagating"
                   /\ outcome' = [kind |-> "propagating", error |-> r.error]
                   /\ UNCHANGED results
    /\ UNCHANGED <<poolWorkers, inputFiles, numWorkersArg, configMaxWorkers, tasks, numWorkers,
                   running, calls, delivered, poolState>>

\* result loop: the iterator of imap_unordered yields the next delivered value
\* (results.append, progress.update) or re-raises the delivered error
ParCollect ==
    /\ pc = "par"
    /\ collected < Len(delivered)
    /\ LET r == WorkerFunc(tasks[delivered[collected + 1]])
       IN  /\ collected' = collected + 1
           /\ IF r.ok
              THEN /\ results' = Append(results, r.value)
                   /\ events' = Append(events, "advance")
                   /\ UNCHANGED <<pc, outcome>>
              ELSE /\ pc' = "propagating"
                   /\ outcome' = [kind |-> "propagating", error |-> r.error]
                   /\ UNCHANGED <<results, events>>
    /\ UNCHANGED <<poolWorkers, inputFiles, numWorkersArg, configMaxWorkers, tasks, numWorkers,
                   running, calls, delivered, poolState>>

ParFinishInSubmissionOrder ==
    /\ pc = "par"
    /\ Len(results) = Len(tasks)
    /\ poolState' = "terminated"
    /\ events' = Append(events, "log_complete")
    /\ pc' = "returned"
    /\ outcome' = Returned([i \in 1..Len(tasks) |-> WorkerFunc(tasks[i]).value])
    /\ UNCHANGED <<poolWorkers, inputFiles, numWorkersArg, configMaxWorkers, tasks, numWorkers,
                   results, running, calls, delivered, collected>>

\* result loop exhausted (one value per task): both with blocks exit, the pool
\* is terminated, log_progress_complete, return results
ParFinish ==
    /\ pc = "par"
    /\ Len(results) = Len(tasks)
    /\ poolState' = "terminated"
    /\ events' = Append(events, "log_complete")
    /\ pc' = "returned"
    /\ outcome' = Returned(results)
    /\ UNCHANGED <<poolWorkers, inputFiles, numWorkersArg, configMaxWorkers, tasks, numWorkers,
                   results, running, calls, delivered, collected>>

ParTeardownLeavesPool ==
    /\ pc = "propagating"
    /\ pc' = "raised"
    /\ outcome' = [kind |-> "raised", error |-> outcome.error]
    /\ UNCHANGED <<poolWorkers, inputFiles, numWorkersArg, configMaxWorkers, tasks, numWorkers,
                   results, running, calls, delivered, collected, events, poolState>>

\* the error leaves the with blocks: Pool.__exit__ terminates the pool, which
\* drops the queued tasks and kills the workers, then the caller gets the error
ParTeardown ==
    /\ pc = "propagating"
    /\ poolState' = "terminated"
    /\ running' = {}
    /\ pc' = "raised"
    /\ outcome' = [kind |-> "raised", error |-> outcome.error]
    /\ UNCHANGED <<poolWorkers, inputFiles, numWorkersArg, configMaxWorkers, tasks, numWorkers,
                   results, calls, delivered, collected, events>>

WorkerArgs == {NoneInt, SomeInt(0), SomeInt(0 - 1)} \cup {SomeInt(n) : n \in 1..MaxWorkers}

(***************************************************************************)
(* AudioMetaViewer.process_batch: the override calls                       *)
(* super().process_batch(input_files, output_dir, num_workers, **kwargs),  *)
(* then pipes the lengths of the results to uplot and returns the results. *)
(***************************************************************************)
OverrideIdle ==
    /\ ovArgs = [input_files |-> <<>>, output_dir |-> NoneValue, num_workers |-> NoneInt,
                 kwargs |-> NoKwargs]
    /\ ovPc = "idle"
    /\ delegations = 0
    /\ extraSteps = 0
    /\ ovOutcome = Pending

\* any call of the override
OverrideInit ==
    /\ ovArgs \in [input_files : SeqsUpTo(Files, MaxFiles),
                   output_dir : {NoneValue} \cup OutputDirs,
                   num_workers : WorkerArgs,
                   kwargs : KwargsChoices]
    /\ ovPc = "idle"
    /\ delegations = 0
    /\ extraSteps = 0
    /\ ovOutcome = Pending

OverrideCallDropsWorkers ==
    /\ ovPc = "idle"
    /\ inputFiles' = ovArgs.input_files
    /\ outputDirArg' = ovArgs.output_dir
    /\ numWorkersArg' = NoneInt
    /\ kwargsArg' = ovArgs.kwargs
    /\ delegations' = delegations + 1
    /\ ovPc' = "delegated"
    /\ UNCHANGED <<ovArgs, extraSteps, ovOutcome, configMaxWorkers, tasks, numWorkers, pc,
                   results, running, calls, delivered, collected, events, poolState,
                   outcome, poolWorkers>>

\* the override is entered and calls super().process_batch with its own
\* arguments: they become the parameters of BaseProcessor.process_batch
OverrideCall ==
    /\ ovPc = "idle"
    /\ inputFiles' = ovArgs.input_files
    /\ outputDirArg' = ovArgs.output_dir
    /\ numWorkersArg' = ovArgs.num_workers
    /\ kwargsArg' = ovArgs.kwargs
    /\ delegations' = delegations + 1
    /\ ovPc' = "delegated"
    /\ UNCHANGED <<ovArgs, extraSteps, ovOutcome, configMaxWorkers, tasks, numWorkers, pc,
                   results, running, calls, delivered, collected, events, poolState,
                   outcome, poolWorkers>>

\* super().process_batch has returned its list or raised: an error leaves the
\* override at once, a list is bound to process_results
OverrideResume ==
    /\ ovPc = "delegated"
    /\ pc \in {"returned", "raised"}
    /\ IF pc = "raised"
       THEN ovPc' = "raised" /\ ovOutcome' = outcome
       ELSE ovPc' = "extra" /\ UNCHANGED ovOutcome
    /\ UNCHANGED <<ovArgs, delegations, extraSteps, batchVars, batchArgVars>>

\* the extra step: subprocess.run(["uplot", "hist"], ...) on the lengths; a
\* failing tool raises AudioProcessingError, otherwise process_results is
\* returned
OverrideExtraStep(toolOk) ==
    /\ ovPc = "extra"
    /\ extraSteps' = extraSteps + 1
    /\ IF toolOk
       THEN ovPc' = "returned" /\ ovOutcome' = Returned(outcome.value)
       ELSE /\ ovPc' = "raised"
            /\ ovOutcome' = [kind |-> "raised",
                             error |-> [kind |-> "AudioProcessingError", path |-> "uplot"]]
    /\ UNCHANGED <<ovArgs, delegations, batchVars, batchArgVars>>

(***************************************************************************)
(* The keyword-argument mappings of one batch.  The caller's mapping is    *)
(* bound to **kwargs of process_batch (a new dict), each task gets         *)
(* dict(kwargs), and _process_single_task passes **extra_kwargs, which     *)
(* binds a new dict to **kwargs of process_single.                         *)
(***************************************************************************)
NoRef == 0

IsolationIdle ==
    /\ kwHeap = <<>>
    /\ kwRefs = [caller |-> NoRef, batch |-> NoRef]
    /\ taskKw = <<>>
    /\ calleeKw = <<>>
    /\ kwStage = "idle"

\* a caller holding a mapping, about to call process_batch on some files
IsolationInit ==
    /\ kwHeap = <<kwargsArg>>
    /\ kwRefs = [caller |-> 1, batch |-> NoRef]
    /\ taskKw = <<>>
    /\ calleeKw = <<>>
    /\ kwStage = "idle"

\* the keys and values a strategy may write into its own kwargs
KwWrites == {<<"target_sr", 8000>>, <<"seen", 1>>}

\* d[key] = value on a mapping kept as a set of pairs
KwSet(d, key, value) == {kv \in d : kv[1] # key} \cup {<<key, value>>}

\* process_batch(input_files, ..., **kwargs) is entered: kwargs is a new dict
KwCall ==
    /\ kwStage = "idle"
    /\ kwHeap' = Append(kwHeap, kwHeap[kwRefs.caller])
    /\ kwRefs' = [kwRefs EXCEPT !.batch = Len(kwHeap) + 1]
    /\ kwStage' = "called"
    /\ UNCHANGED <<taskKw, calleeKw>>

KwBuildTasksShared ==
    /\ kwStage = "called"
    /\ taskKw' = [i \in 1..Len(inputFiles) |-> kwRefs.batch]
    /\ calleeKw' = [i \in 1..Len(inputFiles) |-> NoRef]
    /\ kwStage' = "built"
    /\ UNCHANGED <<kwHeap, kwRefs>>

\* the list comprehension: dict(kwargs) is evaluated once per input file
KwBuildTasks ==
    /\ kwStage = "called"
    /\ kwHeap' = kwHeap \o [i \in 1..Len(inputFiles) |-> kwHeap[kwRefs.batch]]
    /\ taskKw' = [i \in 1..Len(inputFiles) |-> Len(kwHeap) + i]
    /\ calleeKw' = [i \in 1..Len(inputFiles) |-> NoRef]
    /\ kwStage' = "built"
    /\ UNCHANGED kwRefs

\* a worker takes task i: processor.process_single(..., **extra_kwargs)
KwConsume(i) ==
    /\ kwStage = "built"
    /\ calleeKw[i] = NoRef
    /\ kwHeap' = Append(kwHeap, kwHeap[taskKw[i]])
    /\ calleeKw' = [calleeKw EXCEPT ![i] = Len(kwHeap) + 1]
    /\ UNCHANGED <<kwRefs, taskKw, kwStage>>

\* process_single of task i writes to its kwargs while it runs
KwMutate(i, key, value) ==
    /\ kwStage = "built"
    /\ calleeKw[i] # NoRef
    /\ kwHeap' = [kwHeap EXCEPT ![calleeKw[i]] = KwSet(@, key, value)]
    /\ UNCHANGED <<kwRefs, taskKw, calleeKw, kwStage>>

(***************************************************************************)
(* CreamConfig: the operations that write max_workers and the other        *)
(* settings.                                                               *)
(***************************************************************************)
\* integers a caller may pass for a worker count
ConfigInts == (0 - 1)..MaxWorkers

OptionalInts == {NoneInt} \cup {SomeInt(n) : n \in ConfigInts}

NoneBool == [isNone |-> TRUE, val |-> FALSE]

SomeBool(b) == [isNone |-> FALSE, val |-> b]

OptionalBools == {NoneBool} \cup {SomeBool(b) : b \in BOOLEAN}

NoneList == [isNone |-> TRUE, val |-> <<>>]

SomeList(l) == [isNone |-> FALSE, val |-> l]

ConfigIdle ==
    /\ configOp = "construct"
    /\ enableProgressBars = TRUE

\* validate_config: max_workers below 1 becomes 1
ValidatedWorkers(n) == IF n < 1 THEN 1 ELSE n

\* CreamConfig(max_workers=n): the dataclass fields get their defaults or
\* the arguments, then __post_init__ calls validate_config
ConfigConstruct(max_workers) ==
    /\ configMaxWorkers' = ValidatedWorkers(IF max_workers.isNone THEN 1 ELSE max_workers.val)
    /\ enableProgressBars' = TRUE
    /\ audioFormats' = DefaultAudioFormats
    /\ textFormats' = DefaultTextFormats
    /\ configOp' = "construct"

\* CreamConfig.validate_config
ValidateConfig ==
    /\ configMaxWorkers' = ValidatedWorkers(configMaxWorkers)
    /\ configOp' = "validate_config"
    /\ UNCHANGED <<enableProgressBars, audioFormats, textFormats>>

\* max(1, num_workers)
Max1(n) == IF n > 1 THEN n ELSE 1

\* CreamConfig.set_parallel_config
SetParallelConfig(num_workers, enable_progress_bars) ==
    /\ configMaxWorkers' = IF num_workers.isNone THEN configMaxWorkers
                           ELSE Max1(num_workers.val)
    /\ enableProgressBars' = IF enable_progress_bars.isNone THEN enableProgressBars
                             ELSE enable_progress_bars.val
    /\ configOp' = "set_parallel_config"
    /\ UNCHANGED <<audioFormats, textFormats>>

\* CreamConfig.update_from_cli_args(**kwargs): setattr for every key the
\* object has and whose value is not None
UpdateFromCliArgs(kwargs) ==
    /\ configMaxWorkers' = IF kwargs.max_workers.isNone THEN configMaxWorkers
                           ELSE kwargs.max_workers.val
    /\ enableProgressBars' = IF kwargs.enable_progress_bars.isNone THEN enableProgressBars
                             ELSE kwargs.enable_progress_bars.val
    /\ audioFormats' = IF kwargs.audio_formats.isNone THEN audioFormats
                       ELSE kwargs.audio_formats.val
    /\ textFormats' = IF kwargs.text_formats.isNone THEN textFormats
                      ELSE kwargs.text_formats.val
    /\ configOp' = "update_from_cli_args"

\* keyword arguments of update_from_cli_args
CliArgsChoices ==
    [max_workers : OptionalInts, enable_progress_bars : OptionalBools,
     audio_formats : {NoneList} \cup {SomeList(l) : l \in AudioFormatLists},
     text_formats : {NoneList} \cup {SomeList(l) : l \in TextFormatLists}]

(***************************************************************************)
(* The process command of the audio and text CLI (process_audio,           *)
(* process_text): the try block statement by statement, then the except    *)
(* clauses.                                                                *)
(***************************************************************************)
\* what a run of the command meets: its arguments, the file system and the
\* outcome of the processing it starts
CliInputs ==
    [domain : Domains,
     params_ok : BOOLEAN,
     method_ok : BOOLEAN,
     is_dir : BOOLEAN,
     has_files : BOOLEAN,
     output : {"none", "absent", "file", "dir"},
     run : {"ok", "CreamError", "Exception"}]

NoException == [kind |-> "none", code |-> 0]

TyperExit(code) == [kind |-> "typer.Exit", code |-> code]

Raised(kind) == [kind |-> kind, code |-> 0]

CliAt(at) == [at |-> at, exc |-> NoException]

CliHandling(exc) == [at |-> "except", exc |-> exc]

CliIdle ==
    /\ cliInput = [domain |-> "audio", params_ok |-> TRUE, method_ok |-> TRUE,
                   is_dir |-> FALSE, has_files |-> FALSE, output |-> "none", run |-> "ok"]
    /\ cliPc = CliAt("idle")
    /\ cliExit = "none"

CliInit ==
    /\ cliInput \in CliInputs
    /\ cliPc = CliAt("idle")
    /\ cliExit = "none"

\* isinstance(e, CreamError): ValidationError and the processing errors
IsCreamError(exc) == exc.kind \in {"CreamError", "ValidationError"}

\* isinstance(e, Exception): typer.Exit is click's Exit, a RuntimeError, and
\* typer.BadParameter a ClickException
IsException(exc) ==
    exc.kind \in {"CreamError", "ValidationError", "Exception", "typer.Exit",
                  "typer.BadParameter"}

\* the command is entered: console.print, then the try block
CliEnter ==
    /\ cliPc = CliAt("idle")
    /\ cliPc' = CliAt("parse")
    /\ UNCHANGED <<cliInput, cliExit>>

\* extra_args = _parse_params(params)
CliParse ==
    /\ cliPc = CliAt("parse")
    /\ cliPc' = IF cliInput.params_ok THEN CliAt("interface")
                ELSE CliHandling(Raised("typer.BadParameter"))
    /\ UNCHANGED <<cliInput, cliExit>>

\* interface = AudioProcessorInterface(method=method): processor_registry.create
CliInterface ==
    /\ cliPc = CliAt("interface")
    /\ cliPc' = IF ~cliInput.method_ok THEN CliHandling(Raised("ValidationError"))
                ELSE IF cliInput.is_dir THEN CliAt("scan") ELSE CliAt("single")
    /\ UNCHANGED <<cliInput, cliExit>>

\* batch mode: the supported files under the directory; none: typer.Exit(0)
CliScan ==
    /\ cliPc = CliAt("scan")
    /\ cliPc' = IF cliInput.has_files THEN CliAt("output")
                ELSE CliHandling(TyperExit(0))
    /\ UNCHANGED <<cliInput, cliExit>>

\* batch mode: --output exists and is no directory: typer.Exit(2)
CliCheckOutput ==
    /\ cliPc = CliAt("output")
    /\ cliPc' = IF cliInput.output = "file" THEN CliHandling(TyperExit(2))
                ELSE CliAt("batch")
    /\ UNCHANGED <<cliInput, cliExit>>

\* interface.process_batch(...) or interface.process_file(...), then the
\* closing console.print
CliRun ==
    /\ cliPc \in {CliAt("batch"), CliAt("single")}
    /\ cliPc' = IF cliInput.run = "ok" THEN CliAt("done")
                ELSE CliHandling(Raised(cliInput.run))
    /\ UNCHANGED <<cliInput, cliExit>>

\* the command returns: exit status 0
CliReturn ==
    /\ cliPc = CliAt("done")
    /\ cliExit' = 0
    /\ cliPc' = CliAt("exited")
    /\ UNCHANGED cliInput

\* the exit status an exception leaving the try block ends in: except
\* CreamError and except Exception both raise typer.Exit(1); what neither
\* catches leaves with its own code
HandledExit(exc) ==
    IF IsCreamError(exc) THEN 1
    ELSE IF IsException(exc) THEN 1
    ELSE exc.code

\* except CreamError / except Exception
CliExcept ==
    /\ cliPc.at = "except"
    /\ cliExit' = HandledExit(cliPc.exc)
    /\ cliPc' = [at |-> "exited", exc |-> cliPc.exc]
    /\ UNCHANGED cliInput

(***************************************************************************)
(* ClearVoiceProcessor.load_model and patch_checkpoint_dir: the loader     *)
(* functions of clearvoice's network_wrapper are process-wide.             *)
(***************************************************************************)
LoaderNames == {"load_args_se", "load_args_ss", "load_args_sr", "load_args_tse"}

\* loaders[name]: is the attribute there, and how many wrappers are around it
PatchIdle ==
    /\ loaders = [n \in LoaderNames |-> [present |-> TRUE, wraps |-> 0]]
    /\ cvLoads = <<>>

\* the library as imported: any subset of the loader names exists, unwrapped
PatchInit ==
    /\ loaders \in [LoaderNames -> [present : BOOLEAN, wraps : {0}]]
    /\ cvLoads = <<>>

\* patch_checkpoint_dir: setattr(network_wrapper, name, wrap_loader(orig)) for
\* every name network_wrapper has
patch_checkpoint_dir(ls) ==
    [n \in LoaderNames |->
        IF ls[n].present
        THEN [present |-> TRUE, wraps |-> ls[n].wraps + 1]
        ELSE ls[n]]

\* how often the model's construction runs the checkpoint-directory code
\* when it calls its loader: once per wrapper
WrapperRuns(ls, name) == IF ls[name].present THEN ls[name].wraps ELSE 0

\* ClearVoiceProcessor.load_model for a strategy whose model uses the loader
\* name: the import, then patch_checkpoint_dir, then ClearVoice(...)
CvLoadModel(name, load) ==
    /\ Len(cvLoads) < MaxConstructed
    /\ loaders' = IF load = "missing_library" THEN loaders ELSE patch_checkpoint_dir(loaders)
    /\ cvLoads' = Append(cvLoads,
                         [loader |-> name, outcome |-> load,
                          runs |-> IF load = "missing_library" THEN 0
                                   ELSE WrapperRuns(patch_checkpoint_dir(loaders), name)])

LaterIdle == OverrideIdle /\ IsolationIdle /\ ConfigIdle /\ CliIdle /\ PatchIdle

(***************************************************************************)
(* Specifications                                                          *)
(***************************************************************************)
\* the state before a process_batch call: any input list, any num_workers
\* argument; config.max_workers counts when the argument is None or 0
BatchInit ==
    /\ poolWorkers = 0
    /\ inputFiles \in SeqsUpTo(Files, MaxFiles)
    /\ numWorkersArg \in WorkerArgs
    /\ configMaxWorkers \in 1..MaxWorkers
    /\ (~numWorkersArg.isNone /\ numWorkersArg.val # 0) => configMaxWorkers = 1
    /\ outputDirArg \in {NoneValue} \cup OutputDirs
    /\ kwargsArg \in KwargsChoices
    /\ tasks = <<>>
    /\ numWorkers = 1
    /\ pc = "idle"
    /\ results = <<>>
    /\ running = {}
    /\ calls = <<>>
    /\ delivered = <<>>
    /\ collected = 0
    /\ events = <<>>
    /\ poolState = "none"
    /\ outcome = Pending

InitBatch == RegistryInit /\ BatchInit /\ ModelIdle /\ SingleIdle /\ LaterIdle

NextBatch ==
    \/ ProcessBatchCall /\ UNCHANGED aroundBatch
    \/ SeqStart /\ UNCHANGED aroundBatch
    \/ SeqComplete /\ UNCHANGED aroundBatch
    \/ SeqFinish /\ UNCHANGED aroundBatch
    \/ ParDispatch /\ UNCHANGED aroundBatch
    \/ \E i \in running : ParComplete(i) /\ UNCHANGED aroundBatch
    \/ ParCollect /\ UNCHANGED aroundBatch
    \/ ParFinish /\ UNCHANGED aroundBatch
    \/ ParTeardown /\ UNCHANGED aroundBatch

SpecBatch == InitBatch /\ [][NextBatch]_vars

\* every task terminates, and neither the result loop nor a worker stops
\* while it has something to do
SpecBatchFair == SpecBatch /\ WF_vars(NextBatch)

BatchIdle ==
    /\ poolWorkers = 0
    /\ outputDirArg = NoneValue
    /\ kwargsArg = NoKwargs
    /\ inputFiles = <<>>
    /\ numWorkersArg = [isNone |-> TRUE, val |-> 0]
    /\ configMaxWorkers = 1
    /\ tasks = <<>>
    /\ numWorkers = 1
    /\ pc = "idle"
    /\ results = <<>>
    /\ running = {}
    /\ calls = <<>>
    /\ delivered = <<>>
    /\ collected = 0
    /\ events = <<>>
    /\ poolState = "none"
    /\ outcome = Pending

InitRegistry == RegistryInit /\ BatchIdle /\ ModelIdle /\ SingleIdle /\ LaterIdle

InitSingle == RegistryInit /\ BatchIdle /\ ModelIdle /\ SingleInit /\ LaterIdle

aroundSingle == <<registryVars, batchVars, batchArgVars, modelVars, laterVars>>

NextSingle ==
    \/ ProcessSingleCall /\ UNCHANGED aroundSingle
    \/ SingleValidate /\ UNCHANGED aroundSingle
    \/ \E completes \in BOOLEAN : SingleWork(completes) /\ UNCHANGED aroundSingle
    \/ SingleReturn /\ UNCHANGED aroundSingle

SpecSingle == InitSingle /\ [][NextSingle]_vars

aroundModel == <<batchVars, batchArgVars, singleVars, laterVars>>

\* registrations, constructor calls step by step, and use of the objects
NextModel ==
    \/ \E name \in Names, cls \in Classes :
          ~Constructing /\ Register(name, cls) /\ UNCHANGED <<aroundModel, modelVars>>
    \/ \E name \in Names : CreateBegin(name) /\ UNCHANGED aroundModel
    \/ \E cls \in Classes : ConstructBegin(cls) /\ UNCHANGED aroundModel
    \/ LoadStart /\ UNCHANGED aroundModel
    \/ \E load \in LoadOutcomes : LoadFinish(load) /\ UNCHANGED aroundModel
    \/ \E i \in 1..Len(instances) : UseInstance(i) /\ UNCHANGED aroundModel

SpecModel == InitRegistry /\ [][NextModel]_vars

aroundOverride ==
    <<registryVars, modelVars, singleVars, isolationVars, configVars, cliVars, patchVars>>

\* the delegated batch keeps the override waiting
DelegatedFrame == ovPc = "delegated" /\ UNCHANGED <<aroundOverride, overrideVars, batchArgVars>>

InitOverride ==
    /\ RegistryInit /\ BatchIdle /\ ModelIdle /\ SingleIdle /\ OverrideInit
    /\ IsolationIdle /\ ConfigIdle /\ CliIdle /\ PatchIdle

NextOverride ==
    \/ OverrideCall /\ UNCHANGED aroundOverride
    \/ OverrideResume /\ UNCHANGED aroundOverride
    \/ \E toolOk \in BOOLEAN : OverrideExtraStep(toolOk) /\ UNCHANGED aroundOverride
    \/ ProcessBatchCall /\ DelegatedFrame
    \/ SeqStart /\ DelegatedFrame
    \/ SeqComplete /\ DelegatedFrame
    \/ SeqFinish /\ DelegatedFrame
    \/ ParDispatch /\ DelegatedFrame
    \/ \E i \in running : ParComplete(i) /\ DelegatedFrame
    \/ ParCollect /\ DelegatedFrame
    \/ ParFinish /\ DelegatedFrame
    \/ ParTeardown /\ DelegatedFrame

SpecOverride == InitOverride /\ [][NextOverride]_vars

aroundIsolation ==
    <<registryVars, batchVars, batchArgVars, modelVars, singleVars, overrideVars,
      configVars, cliVars, patchVars>>

\* the input files of the batches followed through their mappings
IsolationFiles == {"in/a.wav", "raw/b.wav"}

\* one batch of a few files, followed through its mappings
InitIsolation ==
    /\ RegistryInit /\ ModelIdle /\ SingleIdle /\ OverrideIdle
    /\ ConfigIdle /\ CliIdle /\ PatchIdle
    /\ inputFiles \in SeqsUpTo(IsolationFiles, MaxFiles)
    /\ kwargsArg \in KwargsChoices
    /\ outputDirArg = NoneValue
    /\ numWorkersArg = NoneInt
    /\ configMaxWorkers = 1
    /\ tasks = <<>> /\ numWorkers = 1 /\ pc = "idle" /\ results = <<>>
    /\ running = {} /\ calls = <<>> /\ delivered = <<>> /\ collected = 0
    /\ events = <<>> /\ poolState = "none" /\ outcome = Pending /\ poolWorkers = 0
    /\ IsolationInit

NextIsolation ==
    \/ KwCall /\ UNCHANGED aroundIsolation
    \/ KwBuildTasks /\ UNCHANGED aroundIsolation
    \/ \E i \in 1..Len(taskKw) : KwConsume(i) /\ UNCHANGED aroundIsolation
    \/ \E i \in 1..Len(taskKw), w \in KwWrites :
          KwMutate(i, w[1], w[2]) /\ UNCHANGED aroundIsolation

SpecIsolation == InitIsolation /\ [][NextIsolation]_vars

\* configMaxWorkers, audioFormats and textFormats are the configuration's
aroundConfig ==
    <<registryVars, batchArgVars, modelVars, overrideVars, isolationVars, cliVars,
      patchVars, inputFiles, numWorkersArg, tasks, numWorkers, pc, results, running,
      calls, delivered, collected, events, poolState, outcome, poolWorkers,
      strategy, inputPath, stmt, effects, validateCalls, singleOutcome>>

\* config = CreamConfig() at import
InitConfig == InitRegistry

NextConfig ==
    \/ \E n \in OptionalInts : ConfigConstruct(n) /\ UNCHANGED aroundConfig
    \/ ValidateConfig /\ UNCHANGED aroundConfig
    \/ \E n \in OptionalInts, b \in OptionalBools :
          SetParallelConfig(n, b) /\ UNCHANGED aroundConfig
    \/ \E kwargs \in CliArgsChoices : UpdateFromCliArgs(kwargs) /\ UNCHANGED aroundConfig

SpecConfig == InitConfig /\ [][NextConfig]_vars

aroundCli ==
    <<registryVars, batchVars, batchArgVars, modelVars, singleVars, overrideVars,
      isolationVars, configVars, patchVars>>

InitCli ==
    /\ RegistryInit /\ BatchIdle /\ ModelIdle /\ SingleIdle /\ OverrideIdle
    /\ IsolationIdle /\ ConfigIdle /\ PatchIdle
    /\ CliInit

NextCli ==
    \/ CliEnter /\ UNCHANGED aroundCli
    \/ CliParse /\ UNCHANGED aroundCli
    \/ CliInterface /\ UNCHANGED aroundCli
    \/ CliScan /\ UNCHANGED aroundCli
    \/ CliCheckOutput /\ UNCHANGED aroundCli
    \/ CliRun /\ UNCHANGED aroundCli
    \/ CliReturn /\ UNCHANGED aroundCli
    \/ CliExcept /\ UNCHANGED aroundCli

SpecCli == InitCli /\ [][NextCli]_vars

aroundPatch ==
    <<registryVars, batchVars, batchArgVars, modelVars, singleVars, overrideVars,
      isolationVars, configVars, cliVars>>

InitPatch ==
    /\ RegistryInit /\ BatchIdle /\ ModelIdle /\ SingleIdle /\ OverrideIdle
    /\ IsolationIdle /\ ConfigIdle /\ CliIdle
    /\ PatchInit

NextPatch ==
    \E name \in LoaderNames, load \in LoadOutcomes :
        CvLoadModel(name, load) /\ UNCHANGED aroundPatch

SpecPatch == InitPatch /\ [][NextPatch]_vars

NextRegistry ==
    \/ \E name \in Names, cls \in Registrable : Register(name, cls) /\ UNCHANGED aroundRegistry
    \/ \E name \in LookupNames, load \in LoadOutcomes :
          Create(name, load) /\ UNCHANGED aroundRegistry
    \/ ListProcessors /\ UNCHANGED aroundRegistry
    \/ \E base \in BaseClasses : ListProcessorsByBase(base) /\ UNCHANGED aroundRegistry
    \/ \E domain \in Domains : ListAllMethods(domain) /\ UNCHANGED aroundRegistry

\* the registry with a caller that takes snapshots and edits them
NextSnapshot ==
    \/ \E name \in Names, cls \in Registrable : Register(name, cls) /\ UNCHANGED aroundRegistry
    \/ GetProcessorClasses /\ UNCHANGED aroundRegistry
    \/ \E i \in 1..Len(snapshots), name \in Names, cls \in Registrable :
          SnapshotSet(i, name, cls) /\ UNCHANGED aroundRegistry
    \/ \E i \in 1..Len(snapshots), name \in Names :
          SnapshotDel(i, name) /\ UNCHANGED aroundRegistry

SpecSnapshot == InitRegistry /\ [][NextSnapshot]_vars

SpecRegistry == InitRegistry /\ [][NextRegistry]_vars

(***************************************************************************)
(* Batch executor claims                                                   *)
(***************************************************************************)
SeqMode == pc # "idle" /\ tasks # <<>> /\ numWorkers = 1

ParMode == pc # "idle" /\ tasks # <<>> /\ numWorkers > 1

Ascending(n) == [i \in 1..n |-> i]

NoDup(q) == \A i, j \in 1..Len(q) : i # j => q[i] # q[j]

Raises(i) == ~WorkerFunc(tasks[i]).ok

NoTaskRaises == \A i \in 1..Len(tasks) : ~Raises(i)

InSubmissionOrder == [i \in 1..Len(tasks) |-> WorkerFunc(tasks[i]).value]

InDeliveryOrder(n) == [k \in 1..n |-> WorkerFunc(tasks[delivered[k]]).value]

\* C1: with num_workers == 1, once worker_func has raised on the task at
\* position i, process_batch has raised that error, has returned no list, has
\* invoked worker_func on positions 1..i once each and on no position after i.
SequentialFailure ==
    (SeqMode /\ \E i \in Range(delivered) : Raises(i)) =>
        LET i == Len(calls)
        IN  /\ pc = "raised"
            /\ outcome = [kind |-> "raised", error |-> WorkerFunc(tasks[i]).error]
            /\ calls = Ascending(i)
            /\ Raises(i)
            /\ \A j \in 1..(i - 1) : ~Raises(j)
            /\ running = {}
            /\ ~ENABLED NextBatch

\* C1 witness: the sequential batch raised with a result already collected and
\* a task still to come
SequentialFailureWitness ==
    /\ SeqMode
    /\ pc = "raised"
    /\ Len(results) > 0
    /\ Len(calls) < Len(tasks)

\* C2 (as stated): no task that had not started when the failure was observed
\* is started afterwards.
NoStartAfterFailureObserved == [][(ParMode /\ pc = "propagating") => calls' = calls]_vars

ParallelFailureInv ==
    ParMode =>
        /\ pc \in {"propagating", "raised"} =>
              /\ collected > 0
              /\ Raises(delivered[collected])
              /\ outcome.kind = pc
              /\ outcome.error = WorkerFunc(tasks[delivered[collected]]).error
        /\ (\E k \in 1..collected : Raises(delivered[k])) => pc \in {"propagating", "raised"}
        /\ pc = "raised" =>
              /\ poolState = "terminated"
              /\ running = {}
              /\ ~ENABLED NextBatch
        /\ pc = "returned" => NoTaskRaises

\* C2 (amended): with num_workers > 1, when the result loop meets a task's
\* error the batch call raises that error and returns no result sequence; until
\* the pool is torn down dispatched tasks may complete and an idle worker may
\* still start a queued task; the pool is torn down before the error reaches
\* the caller, and no task is started once it has.
ParallelFailure ==
    /\ []ParallelFailureInv
    /\ [][poolState = "terminated" => (calls' = calls /\ delivered' = delivered)]_vars

\* C2 witness: the parallel batch raised while a dispatched task had completed
\* uncollected and another task was never started
ParallelFailureWitness ==
    /\ ParMode
    /\ pc = "raised"
    /\ Len(calls) < Len(tasks)
    /\ collected < Len(delivered)

\* C3: with num_workers == 1 tasks run one at a time in submission order, and
\* when no task raises process_batch returns one result per task, the i-th
\* being worker_func(tasks[i]).
SequentialOrder ==
    SeqMode =>
        /\ calls = Ascending(Len(calls))
        /\ delivered = Ascending(Len(delivered))
        /\ Cardinality(running) <= 1
        /\ running \subseteq {Len(calls)}
        /\ Len(calls) = Len(delivered) + Cardinality(running)
        /\ NoTaskRaises => pc # "raised"
        /\ (pc = "returned" /\ NoTaskRaises) =>
              /\ outcome.kind = "returned"
              /\ Len(outcome.value) = Len(tasks)
              /\ outcome.value = InSubmissionOrder

\* C3 witness: a sequential batch of three tasks returned, its first two
\* results different
SequentialOrderWitness ==
    /\ SeqMode
    /\ pc = "returned"
    /\ Len(tasks) = 3
    /\ outcome.value[1] # outcome.value[2]

\* C4: with num_workers > 1 no task is started twice, and when no task raises
\* the returned sequence has one result per submitted task: the same results,
\* as a multiset, as worker_func over the tasks.
ParallelCompleteness ==
    ParMode =>
        /\ NoDup(calls)
        /\ NoDup(delivered)
        /\ Range(delivered) \subseteq Range(calls)
        /\ NoTaskRaises => pc \notin {"propagating", "raised"}
        /\ (pc = "returned" /\ NoTaskRaises) =>
              /\ outcome.kind = "returned"
              /\ Len(outcome.value) = Len(tasks)
              /\ \A v \in Range(InSubmissionOrder) \cup Range(outcome.value) :
                    Cardinality({k \in 1..Len(outcome.value) : outcome.value[k] = v})
                        = Cardinality({i \in 1..Len(tasks) : InSubmissionOrder[i] = v})
              /\ \A i \in 1..Len(tasks) :
                    Cardinality({k \in 1..Len(calls) : calls[k] = i}) = 1

\* C4 witness: a parallel batch with more tasks than workers returned
ParallelCompletenessWitness ==
    /\ ParMode
    /\ pc = "returned"
    /\ Len(tasks) > numWorkers
    /\ outcome.value[1] # outcome.value[2]

\* C5: with num_workers > 1 the results are collected, and returned, in the
\* order their tasks' outcomes were delivered to the executor.
ParallelOrder ==
    ParMode =>
        /\ Len(results) <= Len(delivered)
        /\ results = InDeliveryOrder(Len(results))
        /\ pc = "returned" => outcome = Returned(InDeliveryOrder(Len(delivered)))

\* C5 witness: a parallel batch of two tasks returned its results in an order
\* that differs from submission order
ParallelOrderWitness ==
    /\ ParMode
    /\ pc = "returned"
    /\ Len(tasks) = 2
    /\ outcome.value # InSubmissionOrder

\* C6: an empty task list returns [] at once, for any worker count, with no
\* progress or log event, no pool and no worker_func call.
EmptyBatch ==
    (pc # "idle" /\ inputFiles = <<>>) =>
        /\ pc = "returned"
        /\ outcome = Returned(<<>>)
        /\ events = <<>>
        /\ poolState = "none"
        /\ calls = <<>>
        /\ ~ENABLED NextBatch

\* C6 witness: an empty batch returned under a worker count for which no pool
\* could have been created
EmptyBatchWitness ==
    /\ pc = "returned"
    /\ inputFiles = <<>>
    /\ numWorkers < 1

(***************************************************************************)
(* Registry claims                                                         *)
(***************************************************************************)
Registered(name) == name \in Names /\ latest[name] # "unregistered"

NotFoundError(name) ==
    [kind |-> "ValidationError", requested |-> name, available |-> list_processors(registry)]

\* C7 (as stated): create(name) for a name registered with a processor type
\* returns an instance of the type currently registered under that name.
CreateAlwaysReturnsInstance ==
    (lastOp.op = "create" /\ Registered(lastOp.arg) /\ latest[lastOp.arg] \in Classes)
        => (lastResult.kind = "instance" /\ lastResult.cls = latest[lastOp.arg])

CreateResultInv ==
    lastOp.op = "create" =>
        IF Registered(lastOp.arg)
        THEN /\ lastResult.kind # "ValidationError"
             /\ lastResult.kind = "instance" => lastResult.cls = latest[lastOp.arg]
             /\ (latest[lastOp.arg] \in Classes /\ ~IsModelBacked(latest[lastOp.arg]))
                    => lastResult.kind = "instance"
             /\ (latest[lastOp.arg] \in Classes /\ lastResult.kind # "instance")
                    => lastResult.kind \in {LoadErrorKind(latest[lastOp.arg]), "Exception"}
        ELSE lastResult = NotFoundError(lastOp.arg)

CreateStep ==
    lastOp'.op = "create" =>
        /\ registry' = registry
        /\ lastResult'.kind = "ValidationError" => constructed' = constructed

\* C7 (amended): create(name) for a name registered with a processor type calls
\* the constructor of the type currently registered under that name and returns
\* its instance when construction succeeds; only a model-backed type can fail
\* to construct, and then the load error reaches the caller and no instance is
\* returned.  create(name) for an unregistered name fails with ValidationError
\* carrying the requested name and all currently registered names, constructs
\* no instance and leaves the registry unchanged.
RegistryLookup == []CreateResultInv /\ [][CreateStep]_vars

\* C7 witness: a create found nothing in a non-empty registry after an earlier
\* create had constructed an instance
RegistryLookupWitness ==
    /\ lastOp.op = "create"
    /\ lastResult.kind = "ValidationError"
    /\ lastResult.available # <<>>
    /\ constructed > 0

OneDescriptorPerName ==
    /\ \A n \in Names :
          IF latest[n] = "unregistered"
          THEN ~\E i \in 1..Len(registry) : registry[i].name = n
          ELSE /\ Cardinality({i \in 1..Len(registry) : registry[i].name = n}) = 1
               /\ \A i \in 1..Len(registry) : registry[i].name = n => registry[i].cls = latest[n]
    /\ \A i \in 1..Len(registry) : registry[i].name \in Names
    /\ \A n \in Names :
          Cardinality({i \in 1..Len(list_processors(registry)) :
                          list_processors(registry)[i] = n}) = IF Registered(n) THEN 1 ELSE 0

RegisterStep ==
    lastOp'.op = "register" =>
        /\ lastResult' = NoResult
        /\ \A n \in Names \ {lastOp'.arg} :
              /\ DictHas(registry', n) = DictHas(registry, n)
              /\ DictHas(registry, n) => DictGet(registry', n) = DictGet(registry, n)

\* C8: after any sequence of register calls the registry holds exactly one
\* descriptor per distinct name, the class of the most recent register call for
\* it; register never fails and changes no entry but its own; list_processors
\* names each registered name exactly once.
LastWriteWins == []OneDescriptorPerName /\ [][RegisterStep]_vars

\* C8 witness: a register call has just replaced the class of a name, with
\* another name registered beside it
LastWriteWinsWitness ==
    /\ lastOp.op = "register"
    /\ Len(registry) = 2
    /\ registry[1].name = lastOp.arg
    /\ registry[1].cls # registry[2].cls

Satisfies(name, base) ==
    /\ latest[name] \in Classes
    /\ base \in Mro(latest[name])

\* C9: list_processors_by_base(C) is list_processors() restricted to the names
\* whose registered type is a subclass of C, in the same order; an entry whose
\* check throws is left out and neither raises nor drops another entry.
CapabilityFilter ==
    lastOp.op = "list_processors_by_base" =>
        /\ lastResult.kind = "list"
        /\ lastResult.value =
              SelectSeq(list_processors(registry), LAMBDA n : Satisfies(n, lastOp.arg))

\* C9 witness: the filter skipped a malformed first entry and kept the one
\* after it
CapabilityFilterWitness ==
    /\ lastOp.op = "list_processors_by_base"
    /\ Len(registry) = 2
    /\ registry[1].cls = "NotAClass"
    /\ lastResult.value = <<registry[2].name>>

SnapshotStep ==
    /\ lastOp'.op = "get_processor_classes" =>
          /\ lastResult'.kind = "dict"
          /\ heap'[lastResult'.ref] = registry
          /\ registry' = registry
    /\ lastOp'.op \in {"snapshot_set", "snapshot_del"} =>
          /\ registry' = registry
          /\ list_processors(registry') = list_processors(registry)
          /\ \A n \in LookupNames, l \in LoadOutcomes :
                create(registry', n, l) = create(registry, n, l)
    /\ lastOp'.op = "register" =>
          \A i \in 1..Len(snapshots) : heap'[snapshots[i]] = heap[snapshots[i]]

\* C10: get_processor_classes returns a mapping equal to the live registry at
\* the time of the call; mutating the returned mapping changes neither the
\* live registry nor what create and list_processors give; a later register
\* does not change an earlier snapshot.
SnapshotIsolation == [][SnapshotStep]_vars

\* C10 witness: the caller deleted an entry from its snapshot and the live
\* registry still has it
SnapshotIsolationWitness ==
    /\ lastOp.op = "snapshot_del"
    /\ Len(snapshots) > 0
    /\ \E n \in Names : ~DictHas(heap[snapshots[1]], n) /\ DictHas(registry, n)

(***************************************************************************)
(* Validation claims                                                       *)
(***************************************************************************)
ValidationRan == validateCalls > 0

RaisedValidationError ==
    /\ singleOutcome.kind = "raised"
    /\ singleOutcome.error.kind = "ValidationError"

IsAudioStrategy == "BaseAudioProcessor" \in Mro(strategy)

IsTextStrategy == "BaseTextProcessor" \in Mro(strategy)

\* the allow-list the configuration holds for the strategy's domain
ConfiguredFormats == IF IsAudioStrategy THEN audioFormats ELSE textFormats

\* C11: validate_input on a path that does not exist raises ValidationError
\* and never returns normally, for every processor type (base, audio, text,
\* model-backed) and whatever the path's extension.
MissingInput ==
    ~inputPath.exists =>
        /\ ~validate_input(strategy, inputPath, audioFormats, textFormats).ok
        /\ validate_input(strategy, inputPath, audioFormats, textFormats).error.kind
              = "ValidationError"
        /\ ValidationRan => RaisedValidationError
        /\ singleOutcome.kind # "returned"

\* C11 witness: an audio strategy was given a missing file whose extension
\* the allow-list accepts, and validate_input raised
MissingInputWitness ==
    /\ ~inputPath.exists
    /\ IsAudioStrategy
    /\ Lower(inputPath.suffix) \in Range(audioFormats)
    /\ ValidationRan
    /\ RaisedValidationError

\* the sequence q enumerates the set S in increasing str order, once each
EnumeratesSorted(q, S) ==
    /\ Range(q) = S
    /\ \A i, j \in 1..Len(q) : i < j => StrLess(q[i], q[j])

\* C12: for an existing path an audio (resp. text) processor's validate_input
\* raises ValidationError exactly when the lower-cased extension is not in
\* the configured allow-list, and the error's message carries the complete
\* allow-list in sorted order.
ExtensionAllowList ==
    (inputPath.exists /\ (IsAudioStrategy \/ IsTextStrategy) /\ ValidationRan) =>
        /\ RaisedValidationError <=> Lower(inputPath.suffix) \notin Range(ConfiguredFormats)
        /\ singleOutcome.kind = "raised" => RaisedValidationError \/ effects # <<>>
        /\ RaisedValidationError =>
              /\ singleOutcome.error.suffix = inputPath.suffix
              /\ EnumeratesSorted(singleOutcome.error.supported, Range(ConfiguredFormats))

\* C12 witness: the default audio allow-list rejected an existing .pdf and
\* the message lists the nine formats in sorted order
ExtensionAllowListWitness ==
    /\ inputPath = [exists |-> TRUE, suffix |-> ".pdf"]
    /\ IsAudioStrategy
    /\ audioFormats = DefaultAudioFormats
    /\ RaisedValidationError
    /\ singleOutcome.error.supported =
          <<".ac3", ".aiff", ".flac", ".m4a", ".mp3", ".ogg", ".opus", ".wav", ".wma">>

\* once process_single has raised, its body does nothing more
SingleStopsAtRaise == singleOutcome.kind = "raised" => UNCHANGED singleVars

ValidationFirstInv ==
    /\ effects # <<>> =>
          /\ ValidationRan
          /\ validate_input(strategy, inputPath, audioFormats, textFormats).ok
    /\ validateCalls <= 1
    /\ RaisedValidationError => effects = <<>> /\ validateCalls = 1

\* C19: every registered strategy's process_single calls validate_input
\* before any processing work; when validation fails it raises ValidationError
\* with no processing side effect and without retry.
ValidationFirst == []ValidationFirstInv /\ [][SingleStopsAtRaise]_vars

\* C19 witness: AudioNormalizer was given an existing file of a format the
\* allow-list rejects and raised before touching it
ValidationFirstWitness ==
    /\ strategy = "AudioNormalizer"
    /\ inputPath.exists
    /\ RaisedValidationError
    /\ effects = <<>>

(***************************************************************************)
(* Model-backed construction claims                                        *)
(***************************************************************************)
ModelBackedObjects == {i \in 1..Len(instances) : IsModelBacked(instances[i].cls)}

\* the objects whose constructor has reached its load_model call
LoadEntered == {i \in ModelBackedObjects : instances[i].state # "Uninitialized"}

OneLoadInv ==
    /\ loadCalls = Cardinality(LoadEntered)
    /\ ~Constructing => loadCalls = Cardinality(ModelBackedObjects)
    /\ \A i \in LoadEntered : instances[i].loadId \in 1..loadCalls
    /\ \A i, j \in LoadEntered : i # j => instances[i].loadId # instances[j].loadId
    /\ \A i \in 1..Len(instances) :
          /\ instances[i].state = "Ready" => instances[i].handle = instances[i].loadId
          /\ instances[i].state # "Ready" => instances[i].handle = NoHandle
    /\ \A i, j \in 1..Len(instances) :
          (i # j /\ instances[i].state = "Ready" /\ instances[j].state = "Ready") =>
              instances[i].handle # instances[j].handle

OneLoadStep ==
    /\ loadCalls' # loadCalls =>
          /\ loadCalls' = loadCalls + 1
          /\ \E i \in 1..Len(instances) :
                instances[i].state = "Uninitialized" /\ instances'[i].state = "Loading"
    /\ \A i \in 1..Len(instances) :
          instances[i].handle # NoHandle => instances'[i].handle = instances[i].handle
    /\ lastOp'.op = "process_single" => loadCalls' = loadCalls

\* C13: the number of load_model invocations equals the number of
\* instantiations attempted of model-backed types; each instance's model
\* handle comes from its own load_model call; no later operation invokes
\* load_model again or reuses another instance's handle.
OneLoadPerInstance == []OneLoadInv /\ [][OneLoadStep]_vars

\* C13 witness: two instances of one model-backed class, each with the handle
\* of its own load, the first one used after the second was built
OneLoadPerInstanceWitness ==
    /\ Len(instances) = 2
    /\ instances[1].cls = "VAD_FSMN" /\ instances[2].cls = "VAD_FSMN"
    /\ instances[1].handle = 1 /\ instances[2].handle = 2
    /\ instances[1].used
    /\ loadCalls = 2

LifecycleEdges ==
    {<<"Uninitialized", "Loading">>, <<"Loading", "Ready">>, <<"Loading", "Failed">>}

ModelLifecycleInv ==
    \A i \in 1..Len(instances) :
        /\ instances[i].used => instances[i].state \in {"Ready", "Constructed"}
        /\ instances[i].held => instances[i].state \in {"Ready", "Constructed"}
        /\ IsModelBacked(instances[i].cls) =>
              instances[i].state \in {"Uninitialized", "Loading", "Ready", "Failed"}

ModelLifecycleStep ==
    /\ Len(instances') >= Len(instances)
    /\ \A i \in 1..Len(instances) :
          /\ \/ instances'[i].state = instances[i].state
             \/ <<instances[i].state, instances'[i].state>> \in LifecycleEdges
          /\ instances'[i].loadId # instances[i].loadId =>
                instances[i].state = "Uninitialized"
          /\ (instances[i].state = "Loading" /\ instances'[i].state = "Failed") =>
                /\ lastResult'.kind \notin {"instance", "none"}
                /\ ~instances'[i].held
                /\ heap' = heap /\ processorsRef' = processorsRef
                /\ loadCalls' = loadCalls
    /\ \A i \in (Len(instances) + 1)..Len(instances') :
          instances'[i].state =
              IF IsModelBacked(instances'[i].cls) THEN "Uninitialized" ELSE "Constructed"

\* C14: a model-backed instance moves only Uninitialized -> Loading -> Ready
\* or -> Failed; process_single runs only on a Ready instance; when load_model
\* fails, construction and create fail, no instance is returned, load_model
\* is not retried and the registry is unchanged.
ModelLifecycle == []ModelLifecycleInv /\ [][ModelLifecycleStep]_vars

\* C14 witness: create of a registered model-backed class failed in
\* load_model and left a Failed object nobody holds
ModelLifecycleWitness ==
    /\ lastOp.op = "create"
    /\ Len(instances) = 1
    /\ instances[1].state = "Failed"
    /\ ~instances[1].held
    /\ lastResult.kind = "AudioProcessingError"
    /\ loadCalls = 1
    /\ DictHas(registry, lastOp.arg)

\* C15 as stated: every failure of load_model reaches the caller as
\* AudioProcessingError or TextProcessingError, whether a library is missing
\* or the model's construction failed.
LoadFailureKind ==
    \A i \in 1..Len(instances) :
        instances[i].state = "Failed" =>
            instances[i].error \in {"AudioProcessingError", "TextProcessingError"}

(***************************************************************************)
(* Default batch construction, worker count, progress and blocking claims  *)
(***************************************************************************)
\* what process_single is to be called with for the input at position i
ExpectedArgs(i) ==
    [input_path |-> inputFiles[i],
     output_path |-> IF outputDirArg = NoneValue THEN NoneValue
                     ELSE <<outputDirArg, PathName(inputFiles[i])>>,
     kwargs |-> kwargsArg]

\* one task per input path in input order, processed with the output path
\* under output_dir and the caller's keyword arguments
TaskConstruction ==
    /\ Len(tasks) = Len(inputFiles)
    /\ \A i \in 1..Len(tasks) : ProcessSingleArgs(tasks[i]) = ExpectedArgs(i)
    /\ \A k \in 1..Len(calls) : ProcessSingleArgs(tasks[calls[k]]) = ExpectedArgs(calls[k])

\* C16 as stated: one task per input path in input order, each processed with
\* output_dir/f.name or no output path and with the caller's parameters, and
\* the executor gets the given num_workers, or config.max_workers when
\* num_workers is unset.
DelegatesGivenWorkers ==
    pc # "idle" =>
        /\ TaskConstruction
        /\ numWorkers = IF numWorkersArg.isNone THEN configMaxWorkers ELSE numWorkersArg.val

\* C16 (amended): as stated, except that the executor gets the given
\* num_workers only when it is not 0; for num_workers unset or 0 it gets
\* config.max_workers.
DefaultBatchConstruction ==
    pc # "idle" =>
        /\ TaskConstruction
        /\ numWorkersArg.isNone => numWorkers = configMaxWorkers
        /\ (~numWorkersArg.isNone /\ numWorkersArg.val # 0) => numWorkers = numWorkersArg.val
        /\ (~numWorkersArg.isNone /\ numWorkersArg.val = 0) => numWorkers = configMaxWorkers

\* C16 witness: num_workers=0 with config.max_workers = 2 ran a two-worker
\* batch whose first task was processed into the output directory with the
\* caller's target_sr
DefaultBatchConstructionWitness ==
    /\ numWorkersArg = SomeInt(0)
    /\ configMaxWorkers = 2
    /\ numWorkers = 2
    /\ outputDirArg = "out"
    /\ kwargsArg # NoKwargs
    /\ Len(calls) > 0
    /\ inputFiles[1] = "raw/b.wav"
    /\ ProcessSingleArgs(tasks[calls[1]]).output_path = <<"out", "b.wav">>

\* C17 as stated, for the batches that have a task to run: every batch handed
\* to the executor has a worker count of at least 1, for num_workers unset, 0,
\* negative or positive.
WorkerCountBound == (pc # "idle" /\ tasks # <<>>) => numWorkers >= 1

Advances == Len(SelectSeq(events, LAMBDA e : e = "advance"))

\* the collected outcomes that are results, not errors
CollectedResults == {k \in 1..collected : ~Raises(delivered[k])}

\* C18: one progress advance per completed task, emitted after the task's
\* result was collected, so advances never exceed the collected results; on
\* successful return advances equal the number of tasks; sequentially the k-th
\* advance comes after task k completes and before task k+1 starts, and when
\* task k raises exactly k-1 advances were emitted and the completion log
\* never is.
ProgressAccounting ==
    /\ Advances = Cardinality(CollectedResults)
    /\ Advances <= Len(results)
    /\ (pc = "returned" /\ tasks # <<>>) =>
          /\ Advances = Len(tasks)
          /\ events[Len(events)] = "log_complete"
    /\ pc # "returned" => "log_complete" \notin Range(events)
    /\ SeqMode =>
          /\ Advances <= Len(delivered)
          /\ Len(calls) <= Advances + 1
          /\ pc = "raised" => Advances = Len(calls) - 1

\* C18 witness: the third task of a sequential batch raised after two advances
ProgressAccountingWitness ==
    /\ SeqMode
    /\ pc = "raised"
    /\ Len(calls) = 3
    /\ Advances = 2
    /\ events = <<"log_start", "add_task", "advance", "advance">>

\* a collected outcome was an error
FailureObserved == \E k \in 1..collected : Raises(delivered[k])

AllTasksCompleted ==
    /\ Range(delivered) = 1..Len(tasks)
    /\ running = {}
    /\ Len(calls) = Len(tasks)

\* C20 as stated (its safety part): process_batch gives control back only
\* after every task has completed or after a task failure was observed, and
\* after a normal return no task of the batch is running or pending.
BlockingBatch ==
    /\ pc \in {"returned", "raised"} => AllTasksCompleted \/ FailureObserved
    /\ pc = "returned" => AllTasksCompleted /\ ~FailureObserved

\* C20, termination: with every task terminating and the loop and the
\* workers running on, every call returns or raises
BatchTerminates == <>(pc \in {"returned", "raised"})

\* C20, after the call: nothing is running once control is back
NothingRunsAfterBatch == pc \in {"returned", "raised"} => running = {} /\ ~ENABLED NextBatch

(***************************************************************************)
(* AudioMetaViewer.process_batch keeps the delegation                      *)
(***************************************************************************)
\* the arguments super().process_batch received are the override's own
DelegatedArgsSame ==
    /\ inputFiles = ovArgs.input_files
    /\ outputDirArg = ovArgs.output_dir
    /\ numWorkersArg = ovArgs.num_workers
    /\ kwargsArg = ovArgs.kwargs

\* C21: the override calls the default batch operation exactly once, with its
\* own input files, output directory, worker count and parameters; the extra
\* step runs at most once and only after the delegated batch has returned; a
\* successful override returns the delegated result unchanged; a failure of
\* the delegated batch leaves the override with that error and without the
\* extra step.
OverrideKeepsDelegation ==
    /\ delegations <= 1
    /\ ovPc = "idle" => (delegations = 0 /\ pc = "idle")
    /\ ovPc # "idle" => (delegations = 1 /\ DelegatedArgsSame)
    /\ extraSteps <= 1
    /\ ovPc = "extra" => (pc = "returned" /\ extraSteps = 0)
    /\ extraSteps = 1 => pc = "returned"
    /\ ovPc = "returned" => (extraSteps = 1 /\ ovOutcome = outcome)
    /\ pc = "raised" => extraSteps = 0
    /\ (pc = "raised" /\ ovPc = "raised") => ovOutcome = outcome
    /\ (pc # "idle" /\ tasks # <<>>) =>
          numWorkers = EffectiveWorkers(ovArgs.num_workers, configMaxWorkers)

\* a batch of two files with two workers, delegated, piped and returned
OverrideKeepsDelegationWitness ==
    /\ ovPc = "returned"
    /\ ovArgs.num_workers = SomeInt(2)
    /\ ovArgs.kwargs # NoKwargs
    /\ Len(ovOutcome.value) = 2
    /\ extraSteps = 1

(***************************************************************************)
(* The pool of a batch                                                     *)
(***************************************************************************)
\* C22: in parallel mode the pool has exactly worker_count workers for the
\* whole batch, also when there are fewer tasks than workers, and at most
\* worker_count tasks execute at a time; in sequential mode there is no pool
\* and at most one task executes, on the caller's thread.
FixedSizePoolInv ==
    /\ pc \in {"par", "propagating"} =>
          /\ numWorkers > 1
          /\ poolState # "none"
          /\ poolWorkers = numWorkers
          /\ Cardinality(running) <= numWorkers
    /\ pc = "seq" =>
          /\ numWorkers = 1
          /\ poolState = "none"
          /\ poolWorkers = 0
          /\ Cardinality(running) <= 1
    /\ poolState # "none" => poolWorkers = numWorkers

\* the size of a pool never changes once the pool exists
FixedSizePoolStep == (poolState # "none") => (poolWorkers' = poolWorkers)

FixedSizePool == []FixedSizePoolInv /\ [][FixedSizePoolStep]_vars

\* three workers for two tasks, both executing
FixedSizePoolWitness ==
    /\ pc = "par"
    /\ numWorkers = 3
    /\ Len(tasks) = 2
    /\ Cardinality(running) = 2
    /\ poolWorkers = 3

(***************************************************************************)
(* The parameter mapping of each task                                      *)
(***************************************************************************)
TaskRefs == {taskKw[i] : i \in 1..Len(taskKw)}

CalleeRefs == {calleeKw[i] : i \in 1..Len(calleeKw)} \ {NoRef}

\* every task holds a mapping of its own, equal to the caller's, and what a
\* strategy writes goes to a mapping no task and no caller holds
TaskIsolationInv ==
    /\ kwHeap[kwRefs.caller] = kwargsArg
    /\ kwStage = "built" =>
          /\ Len(taskKw) = Len(inputFiles)
          /\ \A i \in 1..Len(taskKw) :
                /\ taskKw[i] \notin {kwRefs.caller, kwRefs.batch}
                /\ kwHeap[taskKw[i]] = kwargsArg
                /\ \A j \in 1..Len(taskKw) : i # j => taskKw[i] # taskKw[j]
          /\ CalleeRefs \cap (TaskRefs \cup {kwRefs.caller, kwRefs.batch}) = {}
          /\ \A i, j \in 1..Len(calleeKw) :
                (i # j /\ calleeKw[i] # NoRef) => calleeKw[i] # calleeKw[j]

\* a step changes at most the mapping one running strategy was called with
TaskIsolationStep ==
    \A r \in 1..Len(kwHeap) :
        kwHeap'[r] # kwHeap[r] =>
            /\ r \in CalleeRefs
            /\ \A q \in 1..Len(kwHeap) : q # r => kwHeap'[q] = kwHeap[q]

\* C23: each task carries its own copy of the parameter mapping; a change a
\* task's processing makes to its parameters is visible neither to another
\* task nor in the caller's mapping, and no task's mapping changes between
\* its creation and its consumption.
TaskIsolation == []TaskIsolationInv /\ [][TaskIsolationStep]_vars

\* two tasks consumed, the first strategy has written to its parameters, the
\* second sees the caller's values
TaskIsolationWitness ==
    /\ kwStage = "built"
    /\ Len(taskKw) >= 2
    /\ calleeKw[1] # NoRef
    /\ calleeKw[2] # NoRef
    /\ kwHeap[calleeKw[1]] # kwargsArg
    /\ kwHeap[calleeKw[2]] = kwargsArg
    /\ kwargsArg # NoKwargs

(***************************************************************************)
(* The configured default worker count                                     *)
(***************************************************************************)
\* C24: after any sequence of construction, validate_config,
\* set_parallel_config and update_from_cli_args, config.max_workers is an
\* integer of at least 1.
DefaultWorkersAtLeastOne == configMaxWorkers \in Nat /\ configMaxWorkers >= 1

(***************************************************************************)
(* The exit status of the process commands                                 *)
(***************************************************************************)
\* C25: a batch run that finds no supported file exits with status 0; an
\* --output that exists and is no directory exits with status 2; a typer.Exit
\* raised inside the try block reaches the caller with its own code; status 1
\* comes only from a CreamError or an unexpected exception.
CliExitCodes ==
    cliPc.at = "exited" =>
        /\ cliPc.exc.kind = "typer.Exit" => cliExit = cliPc.exc.code
        /\ (cliInput.params_ok /\ cliInput.method_ok /\ cliInput.is_dir
              /\ ~cliInput.has_files) => cliExit = 0
        /\ (cliInput.params_ok /\ cliInput.method_ok /\ cliInput.is_dir
              /\ cliInput.has_files /\ cliInput.output = "file") => cliExit = 2
        /\ cliExit = 1 => cliPc.exc.kind \in {"CreamError", "ValidationError", "Exception",
                                               "typer.BadParameter"}

(***************************************************************************)
(* The patched clearvoice loaders                                          *)
(***************************************************************************)
\* C26: each clearvoice loader is wrapped at most once, however many
\* ClearVoice processors are instantiated.
LoadersWrappedOnce == \A name \in LoaderNames : loaders[name].wraps <= 1

(***************************************************************************)
(* The listing of a domain's methods                                       *)
(***************************************************************************)
\* C27: list_all_methods of the audio interface returns all registered audio
\* methods and only those, and list_all_methods of the text interface all
\* registered text methods and only those.
DomainListingExact ==
    lastOp.op = "list_all_methods" =>
        lastResult.value = list_processors_by_base(registry, DomainBase(lastOp.arg))

====
